---------------------------- MODULE Spec2Model ----------------------------
(***************************************************************************)
(* A model of the change-detection and build-triggering core of buildbot:  *)
(*   - schedulers/basic.py      Scheduler (debounce, build, retire)        *)
(*   - changes/gitmultipoller.py, changes/gitpoller.py   the git pollers   *)
(* The two components share no in-memory state; each has its own           *)
(* specification over its own variables (SchedSpec, PollSpec, ...), the    *)
(* variables of the other component staying as Init left them.             *)
(***************************************************************************)
EXTENDS Integers, Sequences, FiniteSets, TLC

(***************************************************************************)
(* Bounds of the model.                                                    *)
(***************************************************************************)
MaxChanges == 3
MaxTime == 3
MaxBranchChanges == 2
MaxUpstream == 2
MaxTimer == 2
MaxAge == 0
MaxCommits == 3
MaxPolls == 2
MaxCallers == 2
MaxRecords == 2
MaxBackfillPolls == 1

(* Python's None, for stableAt, treeStableTimer and the wake-up delay. *)
None == -1

VARIABLES
    \* ---- the change store (database), committed state
    changes,            \* changes table: number -> [when, important, branch]
    last_processed,     \* scheduler state: highest change number classified
    scheduler_changes,  \* scheduler_changes table: numbers pending for the scheduler
    buildsets,          \* buildsets created: <<[changes, reason, trigger]>>
    retired,            \* log of scheduler_retire_changes calls: <<set of numbers>>
    \* ---- the transaction of db.runInteraction(self._process_changes)
    t,                  \* the transaction's working copy of the three tables
    before,             \* what the evaluation started from (history)
    \* ---- Scheduler, in memory
    treeStableTimer,    \* configuration: None or a number of seconds
    fanning,            \* configuration: the scheduler is an AnyBranchScheduler
    todo,               \* AnyBranchScheduler: branches of branch_changes still to decide
    stableAt,           \* self.stableAt
    important,          \* local of _process_changes
    unimportant,        \* local of _process_changes
    wakeup,             \* the value the evaluation returns
    raised,             \* how the last evaluation ended: "no", "db" or "code"
    rerun,              \* a trigger has committed and the store has not changed since
    pc,                 \* position of Scheduler.run
    now,                \* time.time()
    evalNow             \* the value of now the running evaluation read (history)

VARIABLES
    \* ---- the git history and the poller's working repository
    parents,            \* the commit graph: commit -> <<first parent, second parent>>
    origin,             \* refs/remotes/<remoteName>/<branch>, 0 when absent
    localRef,           \* refs/heads/<localBranch>, 0 when absent
    remoteAdded,        \* the remote is registered in the working repository
    \* ---- GitMultiPoller, configuration
    branchSpecs,        \* self.branchSpecs: <<[branch, localBranch]>>
    allHistoryCfg,      \* the allHistory argument of __init__
    last_head,          \* props['last_head'] of each branch spec, 0 when absent
    maxPolls,           \* how many times poll() is going to be called
    repoExists,         \* the working repository exists when the service starts
    \* ---- GitMultiPoller, in memory
    allHistory,         \* self.allHistory once _init_master has run
    changeCount,        \* self.changeCount
    running,            \* the service is running (not stopped by _stop_on_failure)
    started,            \* startService has been called
    locked,             \* self.initLock.locked
    waiting,            \* self.initLock.waiting
    proc,               \* each call of a locked method: idle, waiting, critical, done
    ppc,                \* position of the poll cycle
    bi,                 \* index of the branch spec _process_changes is at
    currentBranches,    \* tips whose contents are known (resolved to commits)
    historic_mode,      \* historic_mode of the branch being processed
    revList,            \* revisions of the branch still to submit, oldest first
    inflight,           \* revisions whose addChange deferred has not fired
    \* ---- history
    knownTips,          \* currentBranches when the range of the branch was computed
    range,              \* the range of the last log query: [start, tip]
    emitted,            \* changes the store accepted: <<[revision, branch, skip_build, cycle]>>
    cycle,              \* number of poll() calls so far
    local0,             \* the local tracking refs when initialization ended
    faulty,             \* an external call of the current poll cycle has failed (history)
    \* ---- the store, as the Dependent scheduler sees it
    up_buildsets,       \* buildsets of the upstream scheduler: bsid -> [ssid, complete, results]
    subscriptions,      \* bsids the Dependent scheduler is subscribed to
    down_buildsets,     \* buildsets the Dependent scheduler created: <<[ssid, reason, upstream]>>
    unsubscribed,       \* bsids in the order their subscription was dropped (history)
    \* ---- the interaction of Dependent._run
    dt,                 \* its transaction: [created, unsubscribed], not yet committed
    seen,               \* res: the rows scheduler_get_subscribed_buildsets returned
    rows,               \* the rows of res the loop has not visited yet
    dpc                 \* position of Dependent.run: idle, loop, commit

VARIABLES
    \* ---- GitMultiPoller with a working copy (bare is false)
    bare,               \* self.bare
    HEAD,               \* the branch checked out in the working copy, "" when none of the polled ones
    chain               \* _catch_up: how far each branch's checkout-then-reset deferred is

pollVars == <<parents, origin, localRef, remoteAdded, branchSpecs, allHistoryCfg,
              repoExists, maxPolls, allHistory, changeCount, running, started, locked, waiting,
              proc, ppc, bi, currentBranches, historic_mode, revList, inflight,
              knownTips, range, emitted, cycle, local0, last_head, faulty>>

schedVars == <<changes, last_processed, scheduler_changes, buildsets, retired, t,
               before, treeStableTimer, stableAt, important, unimportant, wakeup,
               raised, rerun, pc, now, evalNow, fanning, todo>>

depVars == <<up_buildsets, subscriptions, down_buildsets, unsubscribed, dt, seen, rows, dpc>>

VARIABLES
    \* ---- GitMultiPoller._parse_log_results on the output of one git log
    logged,             \* the commits git log prints, newest first
    foreign,            \* a line that is in the output besides, and where: [line, at]
    parsed              \* the call: [state, revList, submitted]

treeVars == <<bare, HEAD, chain>>

parseVars == <<logged, foreign, parsed>>

vars == <<schedVars, pollVars, depVars, treeVars, parseVars, parseVars>>

(***************************************************************************)
(* Helpers.                                                                *)
(***************************************************************************)
Range(s) == {s[i] : i \in DOMAIN s}

Max(S) == CHOOSE x \in S : \A y \in S : y <= x

Min(S) == CHOOSE x \in S : \A y \in S : x <= y

(* sorted(..., key=lambda c : c.number): the numbers of S, ascending. *)
RECURSIVE SortByNumber(_)
SortByNumber(S) ==
    IF S = {} THEN <<>>
    ELSE LET m == Min(S) IN <<m>> \o SortByNumber(S \ {m})

(***************************************************************************)
(* git: the commit graph and the queries the pollers run on it.            *)
(***************************************************************************)
Commits == 1..MaxCommits

(* The commits reachable from c in graph par, c included. *)
RECURSIVE AncIn(_, _)
AncIn(par, c) ==
    IF c = 0 THEN {}
    ELSE {c} \cup AncIn(par, par[c][1]) \cup AncIn(par, par[c][2])

(* The histories of n commits with one root: commit c > 1 has a first parent
   among the earlier commits and possibly a second one (a merge), which is not
   already contained in the first. *)
RECURSIVE GraphsOf(_)
GraphsOf(n) ==
    IF n = 1 THEN {<< <<0, 0>> >>}
    ELSE UNION {{Append(g, pp) :
                    pp \in {qq \in (1..(n-1)) \X (0..(n-1)) :
                               qq[2] \notin AncIn(g, qq[1])}} :
                g \in GraphsOf(n - 1)}

Anc(c) == AncIn(parents, c)

AncAll(S) == UNION {Anc(c) : c \in S}

(* c, its first parent, the first parent of that, ... : newest first. *)
RECURSIVE FirstParentChain(_)
FirstParentChain(c) ==
    IF c = 0 THEN <<>> ELSE <<c>> \o FirstParentChain(parents[c][1])

(* Mutant: the range includes its left end (exclude^..tip). *)
git_log_inclusive(exclude, tip) ==
    SelectSeq(FirstParentChain(tip), LAMBDA c : c = exclude \/ c \notin Anc(exclude))

(* git log --first-parent <exclude>..<tip> (all of tip's chain when exclude is
   0): the commits on tip's first-parent chain that are not reachable from
   exclude, newest first. *)
git_log(exclude, tip) ==
    SelectSeq(FirstParentChain(tip), LAMBDA c : c \notin Anc(exclude))

(* git merge-base --octopus: the best common ancestors of all of tips, of
   which git prints one. *)
merge_base_octopus(tips) ==
    LET common == {c \in Commits : \A x \in tips : c \in Anc(x)}
    IN {c \in common : \A d \in common \ {c} : c \notin Anc(d)}

Reverse(s) == [i \in 1..Len(s) |-> s[Len(s) + 1 - i]]

(***************************************************************************)
(* GitMultiPoller (changes/gitmultipoller.py on changes/gitpoller.py).     *)
(***************************************************************************)
(* The calls of locked methods: initRepository and setupRepository, made by
   startService, and n callers of poll (the polling loop, and whoever else
   calls it). *)
ProcsOf(n) == {<<"initRepository", 0>>, <<"setupRepository", 0>>}
                 \cup {<<"poll", i>> : i \in 1..n}

Callers == {p \in DOMAIN proc : p[1] = "poll"}

Specs == DOMAIN branchSpecs

(* The branch specs that poll a remote branch, and those that poll a local
   branch only (branch is empty). *)
Normal == {i \in Specs : branchSpecs[i].branch # ""}
LocalOnly == {i \in Specs : branchSpecs[i].branch = ""}

RemoteNames == {branchSpecs[i].branch : i \in Normal}

LocalNames == {branchSpecs[i].localBranch : i \in Specs}

(* The branchSpecs of a poller on the remote branches of names: str2tuple of
   a plain string. *)
str2tuple(names) == [i \in 1..Len(names) |-> [branch |-> names[i], localBranch |-> names[i]]]

NoLocals == [historic_mode |-> FALSE, revList |-> <<>>, inflight |-> {},
             currentBranches |-> {}, knownTips |-> {}, range |-> [start |-> 0, tip |-> 0]]

(* The spec of local branch lb. *)
SpecOf(lb) == CHOOSE j \in Specs : branchSpecs[j].localBranch = lb

(***************************************************************************)
(* The output of git log and its parser (gitmultipoller.py, lines 183-357). *)
(* A line is a sequence of pieces of text: a separator, a word without      *)
(* colon, blank or plus sign, or one of ":", " ", "+", "\n".                *)
(***************************************************************************)
log_separator_commit == "----- HarZZypDCzU -----"
log_separator_files == "----- ZCZbb85R0B0 -----"
log_separator_fields == "----- XqcaaUtPdAo -----"

(* log_fields: field name -> git log --format specifier, "+" first for a
   field of several lines. *)
log_fields == [hash |-> <<"%H">>, subject |-> <<"+", "%s">>, body |-> <<"+", "%b">>,
               name |-> <<"%aE">>, timestamp |-> <<"%ct">>]

(* self.log_fields.items(), in the order the dict yields them. *)
log_fields_items == <<"hash", "subject", "body", "name", "timestamp">>

RECURSIVE Flatten(_)
Flatten(ss) == IF ss = <<>> THEN <<>> ELSE Head(ss) \o Flatten(Tail(ss))

(* _prepare_format_str, lines 195-211, as the lines of the format with what
   each line is: the commit separator; "key: fmt" for each simple field; for
   each field of several lines "key:+", its specifier and the field
   separator; the files separator. *)
_prepare_format_str ==
    << [line |-> <<log_separator_commit>>, tag |-> "start", key |-> ""] >>
    \o Flatten([i \in DOMAIN log_fields_items |->
            LET key == log_fields_items[i] IN
            IF log_fields[key][1] = "+" THEN <<>>
            ELSE << [line |-> <<key, ":", " ">> \o log_fields[key], tag |-> "simple", key |-> key] >>])
    \o Flatten([i \in DOMAIN log_fields_items |->
            LET key == log_fields_items[i] IN
            IF log_fields[key][1] # "+" THEN <<>>
            ELSE << [line |-> <<key, ":", "+">>, tag |-> "header", key |-> key],
                    [line |-> Tail(log_fields[key]), tag |-> "multi", key |-> key],
                    [line |-> <<log_separator_fields>>, tag |-> "close", key |-> key] >>])
    \o << [line |-> <<log_separator_files>>, tag |-> "filesep", key |-> ""] >>

(* What git prints for one line of the format and commit c: the specifier
   replaced by the commit's text, %b by the lines of the body (one empty line
   when there is none). *)
expand(fl, c) ==
    IF fl.tag = "simple"
    THEN << [fl EXCEPT !.line = SubSeq(fl.line, 1, 3) \o c[fl.key]] >>
    ELSE IF fl.tag = "multi"
    THEN IF fl.key = "subject" THEN << [fl EXCEPT !.line = c.subject] >>
         ELSE IF c.body = <<>> THEN << [fl EXCEPT !.line = <<>>] >>
         ELSE [i \in DOMAIN c.body |-> [fl EXCEPT !.line = c.body[i]]]
    ELSE << fl >>

(* git log --name-only --format=... for commit c: the expanded format, then an
   empty line and the paths the commit touches, one a line. *)
git_log_commit(c) ==
    (LET fmt == _prepare_format_str IN Flatten([i \in DOMAIN fmt |-> expand(fmt[i], c)]))
    \o (IF c.files = <<>> THEN <<>>
        ELSE << [line |-> <<>>, tag |-> "files", key |-> ""] >>
             \o [i \in DOMAIN c.files |-> [line |-> c.files[i], tag |-> "files", key |-> ""]])

(* The output for commits cs, each line with what it is and the commit it
   belongs to. *)
git_log_tagged(cs) ==
    Flatten([i \in DOMAIN cs |->
        LET ls == git_log_commit(cs[i]) IN [j \in DOMAIN ls |-> [line |-> ls[j].line, tag |-> ls[j].tag, key |-> ls[j].key, of |-> i]]])

NoForeign == [line |-> <<>>, at |-> -1]

(* The output with line f.line put after its first f.at lines. *)
with_foreign(ls, f) ==
    IF f = NoForeign THEN ls
    ELSE SubSeq(ls, 1, f.at) \o <<f.line>> \o SubSeq(ls, f.at + 1, Len(ls))

(* results.splitlines(): the lines _parse_log_results goes through. *)
log_results ==
    LET ls == git_log_tagged(logged) IN with_foreign([i \in DOMAIN ls |-> ls[i].line], foreign)

(* rline.strip(): without the blanks at its ends. *)
RECURSIVE lstrip(_)
lstrip(l) == IF l # <<>> /\ Head(l) = " " THEN lstrip(Tail(l)) ELSE l

RECURSIVE rstrip(_)
rstrip(l) == IF l # <<>> /\ l[Len(l)] = " " THEN rstrip(SubSeq(l, 1, Len(l) - 1)) ELSE l

strip(l) == rstrip(lstrip(l))

(* The index of the first ":" of l, 0 when it has none. *)
find_colon(l) ==
    IF \E i \in DOMAIN l : l[i] = ":" THEN Min({i \in DOMAIN l : l[i] = ":"}) ELSE 0

(* Mutant: any field name is taken. *)
known_field_any(fld) == TRUE

(* fld in self.log_fields *)
known_field(fld) == Len(fld) = 1 /\ fld[1] \in DOMAIN log_fields

(* bool(revDict): the dict is there and has a key. *)
truthy(st) == ~st.isNone /\ DOMAIN st.revDict # {}

(* d[k] = v *)
setitem(d, k, v) == (k :> v) @@ d

raise(st) == [st EXCEPT !.raised = TRUE]

(* Lines 335-346, "last case, a simple field". *)
simple_field(st, rline) ==
    IF rline = <<>> \/ find_colon(rline) = 0 THEN raise(st)
    ELSE LET k == find_colon(rline)
             fld == SubSeq(rline, 1, k - 1)
             val == SubSeq(rline, k + 1, Len(rline))
         IN  IF ~known_field(fld) THEN raise(st)
             ELSE IF val # <<>> /\ val[1] = "+"
             THEN IF log_fields[fld[1]][1] # "+" \/ val # <<"+">> THEN raise(st)
                  ELSE [st EXCEPT !.revDict = setitem(@, fld[1], Tail(val)), !.bodyField = fld[1]]
             ELSE IF val = <<>> \/ val[1] # " " THEN raise(st)
             ELSE [st EXCEPT !.revDict = setitem(@, fld[1], Tail(val))]

(* The body of the loop over the lines, lines 308-346; bodyField is "" for
   None, and revDict is None when isNone. *)
parse_line(st, rline) ==
    IF st.raised THEN st
    ELSE IF rline = <<log_separator_commit>>
    THEN [st EXCEPT !.revList = IF truthy(st) THEN Append(@, st.revDict) ELSE @,
                    !.revDict = <<>>, !.isNone = FALSE, !.bodyField = "", !.inFiles = FALSE]
    ELSE IF st.isNone THEN raise(st)
    ELSE IF rline = <<log_separator_files>>
    THEN [st EXCEPT !.bodyField = "", !.inFiles = TRUE, !.revDict = setitem(@, "files", <<>>)]
    ELSE IF st.bodyField # ""
    THEN IF rline = <<log_separator_fields>> THEN [st EXCEPT !.bodyField = ""]
         ELSE [st EXCEPT !.revDict = setitem(@, st.bodyField, @[st.bodyField] \o rline \o <<"\n">>)]
    ELSE IF st.inFiles
    THEN IF rline # <<>>
         THEN [st EXCEPT !.revDict = setitem(@, "files", Append(@["files"], strip(rline)))]
         ELSE st
    ELSE simple_field(st, rline)

RECURSIVE parse_lines(_, _)
parse_lines(st, lines) ==
    IF lines = <<>> THEN st ELSE parse_lines(parse_line(st, Head(lines)), Tail(lines))

(* Lines 302-351: the loop, then the last commit is added. *)
parse(lines) ==
    LET st == parse_lines([revList |-> <<>>, revDict |-> <<>>, isNone |-> TRUE, bodyField |-> "",
                           inFiles |-> FALSE, raised |-> FALSE], lines)
    IN  IF st.raised THEN st
        ELSE [st EXCEPT !.revList = IF truthy(st) THEN Append(@, st.revDict) ELSE @]

(* No git log output is being parsed. *)
ParserOff ==
    /\ logged = <<>>
    /\ foreign = NoForeign
    /\ parsed = [state |-> "off", revList |-> <<>>, submitted |-> <<>>]

(* A poller with branch specs specs; a local-only spec comes with or without
   props['last_head']. *)
PollInitMode(specs, ncallers, npolls, isBare) ==
    /\ ParserOff
    /\ bare = isBare
    /\ HEAD = ""
    /\ chain = <<>>
    /\ parents \in GraphsOf(MaxCommits)
    /\ branchSpecs = specs
    /\ last_head \in [DOMAIN specs -> {0, 1}]
    /\ \A i \in Normal : last_head[i] = 0
    /\ faulty = FALSE
    /\ allHistoryCfg \in BOOLEAN
    /\ repoExists \in BOOLEAN
    /\ maxPolls = npolls
    /\ remoteAdded = repoExists
    /\ origin = [b \in RemoteNames |-> IF repoExists THEN 1 ELSE 0]
    /\ localRef \in [LocalNames -> IF repoExists THEN {0, 1} ELSE {0}]
    /\ allHistory = {}
    /\ changeCount = 0
    /\ running = TRUE
    /\ started = FALSE
    /\ locked = FALSE
    /\ waiting = <<>>
    /\ proc = [p \in ProcsOf(ncallers) |-> "idle"]
    /\ ppc = "idle"
    /\ bi = 0
    /\ currentBranches = NoLocals.currentBranches
    /\ historic_mode = NoLocals.historic_mode
    /\ revList = NoLocals.revList
    /\ inflight = NoLocals.inflight
    /\ knownTips = NoLocals.knownTips
    /\ range = NoLocals.range
    /\ emitted = <<>>
    /\ cycle = 0
    /\ local0 = [lb \in LocalNames |-> 0]

PollInitSpecs(specs, ncallers, npolls) == PollInitMode(specs, ncallers, npolls, TRUE)

PollInit(names, ncallers, npolls) == PollInitSpecs(str2tuple(names), ncallers, npolls)

(* The poller without branch specs, never started. *)
GitOff ==
    /\ bare = TRUE
    /\ HEAD = ""
    /\ chain = <<>>
    /\ parents = << <<0, 0>> >>
    /\ branchSpecs = <<>>
    /\ last_head = <<>>
    /\ faulty = FALSE
    /\ allHistoryCfg = FALSE
    /\ repoExists = FALSE
    /\ maxPolls = 0
    /\ remoteAdded = FALSE
    /\ origin = <<>>
    /\ localRef = <<>>
    /\ allHistory = {}
    /\ changeCount = 0
    /\ running = FALSE
    /\ started = FALSE
    /\ locked = FALSE
    /\ waiting = <<>>
    /\ proc = <<>>
    /\ ppc = "idle"
    /\ bi = 0
    /\ currentBranches = NoLocals.currentBranches
    /\ historic_mode = NoLocals.historic_mode
    /\ revList = NoLocals.revList
    /\ inflight = NoLocals.inflight
    /\ knownTips = NoLocals.knownTips
    /\ range = NoLocals.range
    /\ emitted = <<>>
    /\ cycle = 0
    /\ local0 = <<>>

(* No poller: its variables never change. *)
PollerOff ==
    /\ ParserOff
    /\ GitOff

gitVars == <<parents, origin, localRef, remoteAdded>>
cfgVars == <<branchSpecs, allHistoryCfg, repoExists, maxPolls>>
lockVars == <<locked, waiting, proc>>
pollVarsButPpc == <<gitVars, cfgVars, lockVars, last_head, allHistory, changeCount, running, started,
                    bi, currentBranches, historic_mode, revList, inflight, knownTips, range,
                    emitted, cycle, local0, faulty>>
localVars == <<bi, currentBranches, historic_mode, revList, inflight, knownTips, range>>

(* Mutant: the call runs at once, whether the lock is held or not. *)
acquire_unlocked(p) ==
    /\ locked' = TRUE
    /\ proc' = [proc EXCEPT ![p] = "critical"]
    /\ UNCHANGED waiting

(* DeferredLock.acquire by call p: taken at once when free, queued otherwise. *)
acquire(p) ==
    IF locked
    THEN /\ waiting' = Append(waiting, p)
         /\ proc' = [proc EXCEPT ![p] = "waiting"]
         /\ UNCHANGED locked
    ELSE /\ locked' = TRUE
         /\ proc' = [proc EXCEPT ![p] = "critical"]
         /\ UNCHANGED waiting

(* DeferredLock.release by call p, which ends in state st: the lock goes to
   the first waiting call, if any. *)
release(p, st) ==
    IF waiting = <<>>
    THEN /\ locked' = FALSE
         /\ proc' = [proc EXCEPT ![p] = st]
         /\ UNCHANGED waiting
    ELSE /\ proc' = [proc EXCEPT ![p] = st, ![Head(waiting)] = "critical"]
         /\ waiting' = Tail(waiting)
         /\ UNCHANGED locked

(* git fetch that succeeds: each remote-tracking ref moves to where the remote
   branch is now; the remote only appends (fast-forwards). *)
Fetch ==
    {o \in [RemoteNames -> Commits] :
        \A b \in RemoteNames : origin[b] = 0 \/ origin[b] \in Anc(o[b])}

(* The remote-tracking refs after the git fetch of _get_changes, whose failure
   nobody looks at: nothing moves when it fails, as it does when the remote is
   not registered. *)
FetchIgnoringErrors == IF remoteAdded THEN Fetch \cup {origin} ELSE {origin}

(* The remote-tracking refs after setupRepository: it fetches only when it had
   to register the remote. *)
FetchOnSetup == IF remoteAdded THEN {origin} ELSE Fetch

(* GitPoller.startService: the first locked call is made at once. *)
startService ==
    /\ ~started
    /\ started' = TRUE
    /\ acquire(IF repoExists THEN <<"setupRepository", 0>> ELSE <<"initRepository", 0>>)
    /\ UNCHANGED <<schedVars, depVars, treeVars, parseVars, gitVars, cfgVars, last_head, allHistory, changeCount, running, ppc,
                   localVars, emitted, cycle, local0, faulty>>

(* Mutant: a failed initialization is only reported. *)
stop_on_failure_goesOn(r) == r

(* GitPoller._stop_on_failure: stopService when the service is running; r is
   the service running or not. *)
stop_on_failure(r) == FALSE

(* GitPoller.initRepository under initLock: git init.  On success the lock is
   released and then the callback setupRepository asks for it; on failure
   _stop_on_failure stops the service and the deferred fires with the failure
   ("failed"). *)
initRepository(ok) ==
    /\ proc[<<"initRepository", 0>>] = "critical"
    /\ running' = IF ok THEN running ELSE stop_on_failure(running)
    /\ IF ~ok
       THEN release(<<"initRepository", 0>>, "failed")
       ELSE IF waiting = <<>>
       THEN /\ proc' = [proc EXCEPT ![<<"initRepository", 0>>] = "done",
                                    ![<<"setupRepository", 0>>] = "critical"]
            /\ UNCHANGED <<locked, waiting>>
       ELSE /\ proc' = [proc EXCEPT ![<<"initRepository", 0>>] = "done",
                                    ![Head(waiting)] = "critical",
                                    ![<<"setupRepository", 0>>] = "waiting"]
            /\ waiting' = Append(Tail(waiting), <<"setupRepository", 0>>)
            /\ UNCHANGED locked
    /\ UNCHANGED <<schedVars, depVars, treeVars, parseVars, gitVars, cfgVars, last_head, allHistory, changeCount, started, ppc,
                   localVars, emitted, cycle, local0, faulty>>

(* GitMultiPoller._init_master: the local branches that exist once it has run,
   given the remote-tracking refs o and the local branches already there.  A
   missing branch is created from the remote branch or, for a local-only spec,
   from last_head; a local-only spec without last_head is only logged. *)
_init_master(o, present) ==
    [lb \in LocalNames |->
        IF lb \in present THEN localRef[lb]
        ELSE IF SpecOf(lb) \in Normal THEN o[branchSpecs[SpecOf(lb)].branch]
        ELSE IF last_head[SpecOf(lb)] # 0 THEN last_head[SpecOf(lb)]
        ELSE localRef[lb]]

(* _init_master, lines 133-142: with allHistory every branch is to backfill,
   except those already there of a normal spec or of a spec with last_head. *)
init_allHistory(present) ==
    IF allHistoryCfg
    THEN {lb \in LocalNames :
             lb \notin present
                \/ (SpecOf(lb) \in LocalOnly /\ last_head[SpecOf(lb)] = 0)}
    ELSE {}

(* The local branches _init_master has a git command run for: those not there
   yet, of a normal spec or of a local-only spec with last_head. *)
ToCreate(present) ==
    {lb \in LocalNames :
        /\ lb \notin present
        /\ SpecOf(lb) \in Normal \/ last_head[SpecOf(lb)] # 0}

(* _init_master when the git commands of the branches in failed fail: the
   commands are all started in the loop, so the other branches are created. *)
init_master_partial(o, present, failed) ==
    [lb \in LocalNames |->
        IF lb \in failed THEN localRef[lb] ELSE _init_master(o, present)[lb]]

(* Who handles a failed git command of _init_master.  Its own errback is
   _stop_on_failure with a second argument (gitmultipoller.py:163, 173), which
   the method does not take: the call raises and stops nothing.  With the
   remote already registered the errback of gitpoller.py:172 comes next and
   stops the service; on the other path (173-181) no errback follows
   _init_master.  registered: the remote was there; r: running. *)
init_master_failure(registered, r) ==
    IF registered THEN stop_on_failure(r) ELSE r

(* GitPoller.setupRepository under initLock.  With the remote already
   registered: git branch, _init_master(its output).  Otherwise: git remote add,
   git fetch, _init_master().  outcome: "ok"; "fails", one of git remote add,
   git fetch, git branch fails and _stop_on_failure stops the service;
   "init_master_fails", the creation of the local branches in failed fails.
   The deferred fires with None ("done") or with the failure ("failed", or
   "init_master_failed" when _init_master has run). *)
setupRepository(outcome, o, failed) ==
    /\ proc[<<"setupRepository", 0>>] = "critical"
    /\ LET present == IF remoteAdded THEN {lb \in LocalNames : localRef[lb] # 0}
                      ELSE {}
       IN /\ IF outcome = "init_master_fails"
             THEN failed # {} /\ failed \subseteq ToCreate(present)
             ELSE failed = {}
          /\ IF outcome = "fails"
             THEN /\ running' = stop_on_failure(running)
                  /\ UNCHANGED <<origin, remoteAdded, localRef, allHistory, local0>>
             ELSE /\ running' = IF outcome = "ok" THEN running
                                 ELSE init_master_failure(remoteAdded, running)
                  /\ origin' = o
                  /\ remoteAdded' = TRUE
                  /\ localRef' = init_master_partial(o, present, failed)
                  /\ allHistory' = init_allHistory(present)
                  /\ local0' = init_master_partial(o, present, failed)
    /\ release(<<"setupRepository", 0>>,
               IF outcome = "ok" THEN "done"
               ELSE IF outcome = "fails" THEN "failed" ELSE "init_master_failed")
    /\ UNCHANGED <<schedVars, depVars, treeVars, parseVars, parents, cfgVars, last_head, changeCount, started, ppc, localVars,
                   emitted, cycle, faulty>>

(* GitPoller.poll is called (by the polling loop or by hand): deferredLocked
   asks for initLock. *)
poll(p) ==
    /\ started /\ running
    /\ proc[p] = "idle"
    /\ cycle + Cardinality({q \in Callers : proc[q] # "idle"}) < maxPolls
    /\ acquire(p)
    /\ UNCHANGED <<schedVars, depVars, treeVars, parseVars, gitVars, cfgVars, last_head, allHistory, changeCount, running, started,
                   ppc, localVars, emitted, cycle, local0, faulty>>

(* _process_changes, lines 221-231: the tips whose contents are known, given
   the remote-tracking refs o. *)
known_tips(o) ==
    IF allHistory # {}
    THEN {IF i \in Normal THEN o[branchSpecs[i].branch] ELSE last_head[i] :
             i \in {j \in Specs : /\ branchSpecs[j].localBranch \notin allHistory
                                  /\ (j \in Normal \/ last_head[j] # 0)}}
    ELSE {}

(* Mutant: a failed poll stops the service, as a failed initialization does. *)
process_changes_failure_stops(r) == FALSE

(* GitPoller._process_changes_failure: the failure is logged and eaten; r, the
   service running or not, stays as it is. *)
process_changes_failure(r) == r

(* self.allHistory is still the True of __init__: _init_master, which makes
   it a list, has not run.  'localBranch in self.allHistory' (line 225) then
   raises. *)
allHistory_isTrue ==
    allHistoryCfg /\ proc[<<"setupRepository", 0>>] \notin {"done", "init_master_failed"}

(* GitPoller._get_changes: git fetch completes (its exit code is not looked
   at), and GitMultiPoller._process_changes runs up to its first external
   call (lines 215-231): the count is reset and the tips already known are
   collected, or the collection raises and _process_changes_failure takes
   over. *)
_get_changes(p, o) ==
    /\ proc[p] = "critical"
    /\ ppc = "idle"
    /\ origin' = o
    /\ cycle' = cycle + 1
    /\ changeCount' = 0
    /\ IF allHistory_isTrue
       THEN /\ currentBranches' = {}
            /\ bi' = 0
            /\ ppc' = "catch_up"
            /\ faulty' = TRUE
            /\ running' = process_changes_failure(running)
       ELSE /\ currentBranches' = known_tips(o)
            /\ bi' = 1
            /\ ppc' = "log"
            /\ faulty' = FALSE
            /\ running' = running
    /\ UNCHANGED <<schedVars, depVars, treeVars, parseVars, parents, localRef, remoteAdded, cfgVars, last_head, allHistory,
                   started, lockVars, historic_mode, revList, inflight,
                   knownTips, range, emitted, local0>>

(* Mutant: the log output is used as git prints it, newest first. *)
OldestFirst_notReversed(log) == log

(* revList.reverse(): process oldest change first. *)
OldestFirst(log) == Reverse(log)

(* The addChange calls outstanding while revs are still to be submitted: the
   loop of _parse_log_results yields on each _doAddChange, so only the one of
   the oldest. *)
InFlight(revs) == IF revs = <<>> THEN {} ELSE {Head(revs)}

(* After branch spec bi: the next one, or _catch_up. *)
NextPpc == IF bi < Len(branchSpecs) THEN "log" ELSE "catch_up"
NextBi == IF bi < Len(branchSpecs) THEN bi + 1 ELSE 0

(* Mutant: a backfilled branch stays on the list. *)
allHistory_remove_keeps(pending, historic, lb) == pending

(* _process_changes, line 271: self.allHistory.remove(localBranch), for a
   branch that is backfilled. *)
allHistory_remove(pending, historic, lb) ==
    IF historic THEN pending \ {lb} ELSE pending

(* Mutant: the tip of a backfilled branch is not remembered. *)
mark_known_forgets(known, historic, tip) == known

(* _process_changes, lines 267-270: currentBranches.append(...) marks the
   contents of a branch that is backfilled as known. *)
mark_known(known, historic, tip) ==
    IF historic THEN known \cup {tip} ELSE known

(* GitMultiPoller._process_changes, lines 233-287, for branch spec bi, and
   _parse_log_results up to the first _doAddChange (line 362): git merge-base
   (in historic mode) and git log complete, or one of them fails.  outcome:
   "ok", or which call fails; start: the merge base git prints (0: none); head:
   what HEAD is (0: nothing), for the log without a range of a local-only spec
   that has no last_head. *)
log_branch(outcome, start, head) ==
    /\ ppc = "log"
    /\ LET spec == branchSpecs[bi]
           historic == spec.localBranch \in allHistory
           noRange == ~historic /\ bi \in LocalOnly /\ last_head[bi] = 0
           tip == IF noRange THEN head
                  ELSE IF bi \in LocalOnly THEN localRef[spec.localBranch]
                  ELSE origin[spec.branch]
           exclude == IF historic THEN start
                      ELSE IF bi \in LocalOnly THEN last_head[bi]
                      ELSE localRef[spec.localBranch]
           refsOk == /\ tip # 0
                     /\ historic \/ noRange \/ exclude # 0
                     /\ historic => 0 \notin currentBranches
           revs == OldestFirst(git_log(exclude, tip))
       IN
        /\ historic /\ currentBranches # {} /\ 0 \notin currentBranches
              => start \in merge_base_octopus(currentBranches)
        /\ ~(historic /\ currentBranches # {}) => start = 0
        /\ head # 0 => (noRange /\ \E lb \in LocalNames : head = localRef[lb])
        /\ outcome = "merge_base_fails" => (historic /\ currentBranches # {})
        /\ outcome = "ok" => refsOk
        /\ IF outcome = "merge_base_fails"
           THEN UNCHANGED <<allHistory, currentBranches, knownTips, range, historic_mode>>
           ELSE /\ allHistory' = allHistory_remove(allHistory, historic, spec.localBranch)
                /\ currentBranches' = mark_known(currentBranches, historic, tip)
                /\ knownTips' = currentBranches
                /\ range' = [start |-> exclude, tip |-> tip]
                /\ historic_mode' = historic
        /\ IF outcome = "ok"
           THEN /\ revList' = revs
                /\ inflight' = InFlight(revs)
                /\ changeCount' = changeCount + Len(revs)
                /\ ppc' = IF revs = <<>> THEN NextPpc ELSE "add"
                /\ bi' = IF revs = <<>> THEN NextBi ELSE bi
           ELSE /\ ppc' = "catch_up"
                /\ bi' = 0
                /\ UNCHANGED <<revList, inflight, changeCount>>
    /\ faulty' = (faulty \/ outcome # "ok")
    /\ running' = IF outcome = "ok" THEN running ELSE process_changes_failure(running)
    /\ UNCHANGED <<schedVars, depVars, treeVars, parseVars, gitVars, cfgVars, last_head, started, lockVars, emitted,
                   cycle, local0>>

(* Mutant: props is not touched. *)
props_after_unchanged(i, rev) == last_head

(* _parse_log_results, lines 366-369: for a local-only spec the revision just
   submitted becomes props['last_head']. *)
props_after(i, rev) ==
    IF i \in LocalOnly THEN [last_head EXCEPT ![i] = rev] ELSE last_head

(* The branch a change of spec i is submitted for: branch or localBranch. *)
branch_or_localBranch(i) ==
    IF i \in Normal THEN branchSpecs[i].branch ELSE branchSpecs[i].localBranch

(* Mutant: every change may trigger a build. *)
doAddChange_skip_build_never(historic) == FALSE

(* _doAddChange, line 394: skip_build=historic, the historic_mode that
   _process_changes passed on for the branch. *)
doAddChange_skip_build(historic) == historic

(* _parse_log_results, lines 361-369: master.addChange's deferred fires.  The
   change is in the store, last_head follows for a local-only spec, and
   _doAddChange is called for the next revision; or the call failed and the
   failure ends _process_changes. *)
addChange_done(ok) ==
    /\ ppc = "add"
    /\ inflight # {}
    /\ IF ok
       THEN /\ emitted' = Append(emitted,
                              [revision |-> Head(revList),
                               branch |-> branch_or_localBranch(bi),
                               skip_build |-> doAddChange_skip_build(historic_mode),
                               cycle |-> cycle])
            /\ last_head' = props_after(bi, Head(revList))
            /\ revList' = Tail(revList)
            /\ inflight' = InFlight(Tail(revList))
            /\ ppc' = IF Tail(revList) = <<>> THEN NextPpc ELSE "add"
            /\ bi' = IF Tail(revList) = <<>> THEN NextBi ELSE bi
       ELSE /\ ppc' = "catch_up"
            /\ bi' = 0
            /\ revList' = <<>>
            /\ inflight' = {}
            /\ UNCHANGED <<emitted, last_head>>
    /\ faulty' = (faulty \/ ~ok)
    /\ running' = IF ok THEN running ELSE process_changes_failure(running)
    /\ UNCHANGED <<schedVars, depVars, treeVars, parseVars, gitVars, cfgVars, allHistory, changeCount, started,
                   lockVars, currentBranches, historic_mode, knownTips, range, cycle,
                   local0>>

(* Mutant: the tracking refs are moved whatever the count. *)
catch_up_refs_uncounted(count, failing) ==
    [lb \in LocalNames |->
        IF SpecOf(lb) \in failing \/ SpecOf(lb) \in LocalOnly THEN localRef[lb]
        ELSE origin[branchSpecs[SpecOf(lb)].branch]]

(* The local branches after _catch_up, lines 81-121, count being
   self.changeCount and failing the specs whose git branch -f fails. *)
catch_up_refs(count, failing) ==
    IF count = 0 THEN localRef
    ELSE [lb \in LocalNames |->
             IF SpecOf(lb) \in failing \/ SpecOf(lb) \in LocalOnly THEN localRef[lb]
             ELSE origin[branchSpecs[SpecOf(lb)].branch]]

(* Mutant: a failed catch-up stops the service (as it used to). *)
catch_up_failure_stops(r) == FALSE

(* GitPoller._catch_up_failure: the failure is logged, nothing else; r, the
   service running or not, stays as it is. *)
catch_up_failure(r) == r

(* GitMultiPoller._catch_up (bare): nothing when changeCount is 0; otherwise
   git branch -f for every normal branch spec, each failure (the specs in
   failing) only logged; nothing for a local-only spec.  Then poll's deferred
   fires and the lock is released. *)
_catch_up(p, failing) ==
    /\ proc[p] = "critical"
    /\ ppc = "catch_up"
    /\ bare \/ changeCount = 0
    /\ failing \subseteq Normal
    /\ changeCount = 0 => failing = {}
    /\ \A i \in Normal : origin[branchSpecs[i].branch] = 0 => i \in failing \/ changeCount = 0
    /\ localRef' = catch_up_refs(changeCount, failing)
    /\ ppc' = "idle"
    /\ bi' = 0
    /\ currentBranches' = NoLocals.currentBranches
    /\ historic_mode' = NoLocals.historic_mode
    /\ revList' = NoLocals.revList
    /\ knownTips' = NoLocals.knownTips
    /\ range' = NoLocals.range
    /\ faulty' = (faulty \/ failing # {})
    /\ running' = IF failing = {} THEN running ELSE catch_up_failure(running)
    /\ release(p, "idle")
    /\ UNCHANGED <<schedVars, depVars, treeVars, parseVars, parents, origin, remoteAdded, cfgVars, last_head, allHistory,
                   changeCount, started, inflight, emitted, cycle, local0>>

(* GitMultiPoller._catch_up with a working copy, lines 107-121: for every
   normal branch spec git checkout -f is started in the same loop, git reset
   --hard being the callback of each; all of these processes run in the one
   working copy, and the DeferredList waits for them. *)
_catch_up_working_copy(p) ==
    /\ proc[p] = "critical"
    /\ ppc = "catch_up"
    /\ ~bare /\ changeCount # 0
    /\ chain' = [i \in Normal |-> "checkout"]
    /\ ppc' = "catching_up"
    /\ UNCHANGED <<schedVars, depVars, pollVarsButPpc, bare, HEAD, parseVars>>

(* _checkout_branch's process ends, lines 94-99: git checkout -f localBranch
   makes HEAD that branch, and the callback starts git reset; a failure (the
   branch does not exist, the index is locked by another process) goes to
   _catch_up_failure, which logs it. *)
_checkout_branch(i, ok) ==
    /\ ppc = "catching_up"
    /\ chain[i] = "checkout"
    /\ ok => localRef[branchSpecs[i].localBranch] # 0
    /\ HEAD' = IF ok THEN branchSpecs[i].localBranch ELSE HEAD
    /\ chain' = [chain EXCEPT ![i] = IF ok THEN "reset" ELSE "failed"]
    /\ faulty' = (faulty \/ ~ok)
    /\ running' = IF ok THEN running ELSE catch_up_failure(running)
    /\ UNCHANGED <<schedVars, depVars, gitVars, cfgVars, last_head, allHistory, changeCount,
                   started, lockVars, ppc, localVars, emitted, cycle, local0, bare, parseVars>>

(* git reset --hard tip: the branch that is checked out (head) moves to tip,
   whichever branch (own) the command was started for. *)
reset_hard(head, own, tip) == [localRef EXCEPT ![head] = tip]

(* _reset_branch's process ends, lines 101-106: git reset --hard
   <remoteName>/<branch>, in the working copy as it is by then. *)
_reset_branch(i, ok) ==
    /\ ppc = "catching_up"
    /\ chain[i] = "reset"
    /\ ok => origin[branchSpecs[i].branch] # 0
    /\ localRef' = IF ok
                   THEN reset_hard(HEAD, branchSpecs[i].localBranch, origin[branchSpecs[i].branch])
                   ELSE localRef
    /\ chain' = [chain EXCEPT ![i] = IF ok THEN "done" ELSE "failed"]
    /\ faulty' = (faulty \/ ~ok)
    /\ running' = IF ok THEN running ELSE catch_up_failure(running)
    /\ UNCHANGED <<schedVars, depVars, parents, origin, remoteAdded, cfgVars, last_head,
                   allHistory, changeCount, started, lockVars, ppc, localVars, emitted, cycle,
                   local0, bare, HEAD, parseVars>>

(* The DeferredList of _catch_up fires, line 123: every chain has ended; poll's
   deferred fires and the lock is released. *)
_catch_up_done(p) ==
    /\ proc[p] = "critical"
    /\ ppc = "catching_up"
    /\ \A i \in DOMAIN chain : chain[i] \in {"done", "failed"}
    /\ chain' = <<>>
    /\ ppc' = "idle"
    /\ bi' = 0
    /\ currentBranches' = NoLocals.currentBranches
    /\ historic_mode' = NoLocals.historic_mode
    /\ revList' = NoLocals.revList
    /\ knownTips' = NoLocals.knownTips
    /\ range' = NoLocals.range
    /\ release(p, "idle")
    /\ UNCHANGED <<schedVars, depVars, gitVars, cfgVars, last_head, allHistory, changeCount,
                   running, started, inflight, emitted, cycle, local0, faulty, bare, HEAD, parseVars>>

(* Somebody commits to the local branch of a local-only spec (or creates
   it). *)
local_commit(lb, c) ==
    /\ proc[<<"setupRepository", 0>>] = "done"
    /\ SpecOf(lb) \in LocalOnly
    /\ c # localRef[lb]
    /\ localRef[lb] = 0 \/ localRef[lb] \in Anc(c)
    /\ localRef' = [localRef EXCEPT ![lb] = c]
    /\ UNCHANGED <<schedVars, depVars, treeVars, parseVars, parents, origin, remoteAdded, cfgVars, last_head, allHistory,
                   changeCount, running, started, lockVars, ppc, localVars, emitted, cycle,
                   local0, faulty>>

(* The commits git log has to print, few enough to enumerate: c.hash, c.name
   and c.timestamp are the texts of %H, %aE and %ct, c.subject is the line of
   %s, c.body the lines of %b, c.files the paths. *)
LoggedCommits ==
    [hash : {<<"x">>, <<"y">>}, name : {<<"x", ":", " ", "y">>}, timestamp : {<<"1">>},
     subject : {<<"x">>, <<"hash", ":", " ", "y">>},
     body : {<<>>, << <<"x", " ", "y">>, <<>>, <<"zz", ":", "x">> >>},
     files : {<<>>, << <<"x">> >>, << <<"x">>, <<" ", "y", " ">> >>}]

(* Lines that do not belong where they are. *)
ForeignLines ==
    {<<"zz", ":", " ", "x">>, <<"x">>, <<>>, <<"hash", ":", "x">>, <<"hash", ":", "+">>,
     <<"subject", ":", "+", "x">>, <<log_separator_fields>>, <<log_separator_files>>}

RECURSIVE SeqsUpTo(_, _)
SeqsUpTo(S, n) ==
    IF n = 0 THEN {<<>>}
    ELSE SeqsUpTo(S, n - 1) \cup {Append(q, x) : q \in {r \in SeqsUpTo(S, n - 1) : Len(r) = n - 1}, x \in S}

(* git log has printed up to MaxRecords commits; the output may hold one
   foreign line, anywhere. *)
ParseInit ==
    /\ logged \in SeqsUpTo(LoggedCommits, MaxRecords)
    /\ foreign \in {NoForeign} \cup
                   (IF Len(logged) < MaxRecords
                    THEN {[line |-> l, at |-> k] : l \in ForeignLines, k \in 0..Len(git_log_tagged(logged))}
                    ELSE {})
    /\ parsed = [state |-> "todo", revList |-> <<>>, submitted |-> <<>>]

(* GitMultiPoller._parse_log_results, lines 298-370: the lines are parsed; if
   that raises, the deferred fails there; otherwise the list is reversed,
   changeCount grows by its length and each revDict is submitted. *)
_parse_log_results ==
    /\ parsed.state = "todo"
    /\ LET st == parse(log_results) IN
       IF st.raised
       THEN /\ parsed' = [state |-> "raised", revList |-> <<>>, submitted |-> <<>>]
            /\ UNCHANGED changeCount
       ELSE /\ parsed' = [state |-> "ok", revList |-> st.revList, submitted |-> Reverse(st.revList)]
            /\ changeCount' = changeCount + Len(st.revList)
    /\ UNCHANGED <<schedVars, depVars, treeVars, logged, foreign, gitVars, cfgVars, lockVars,
                   last_head, allHistory, running, started, ppc, localVars, emitted, cycle, local0,
                   faulty>>

ParseNext == _parse_log_results

PollNext ==
    \/ startService
    \/ \E ok \in BOOLEAN : initRepository(ok)
    \/ \E outcome \in {"ok", "fails", "init_master_fails"}, o \in FetchOnSetup,
          failed \in SUBSET LocalNames : setupRepository(outcome, o, failed)
    \/ \E p \in Callers : poll(p)
    \/ \E p \in Callers, o \in FetchIgnoringErrors : _get_changes(p, o)
    \/ \E outcome \in {"ok", "merge_base_fails", "log_fails"},
          start \in 0..MaxCommits, head \in 0..MaxCommits :
          log_branch(outcome, start, head)
    \/ \E ok \in BOOLEAN : addChange_done(ok)
    \/ \E p \in Callers, failing \in SUBSET Specs : _catch_up(p, failing)

(* The poller with a working copy. *)
WorkingCopyNext ==
    \/ PollNext
    \/ \E p \in Callers : _catch_up_working_copy(p)
    \/ \E i \in Normal, ok \in BOOLEAN : _checkout_branch(i, ok)
    \/ \E i \in Normal, ok \in BOOLEAN : _reset_branch(i, ok)
    \/ \E p \in Callers : _catch_up_done(p)

(***************************************************************************)
(* The cycle of the single-branch GitPoller (changes/gitpoller.py), on the  *)
(* one branch spec of branchSpecs.                                          *)
(***************************************************************************)
(* GitPoller._get_changes, lines 297-315: git fetch, whose failure nobody
   looks at. *)
GitPoller_get_changes(p, o) ==
    /\ proc[p] = "critical"
    /\ ppc = "idle"
    /\ origin' = o
    /\ cycle' = cycle + 1
    /\ faulty' = FALSE
    /\ ppc' = "log"
    /\ UNCHANGED <<schedVars, depVars, treeVars, parseVars, parents, localRef, remoteAdded,
                   cfgVars, last_head, allHistory, changeCount, running, started, lockVars,
                   localVars, emitted, local0>>

(* git log <localBranch>..<remoteName>/<branch> --format=%H, reversed: every
   commit reachable from the remote-tracking ref and not from the local branch,
   oldest first. *)
GitPoller_revList ==
    SortByNumber(Anc(origin[branchSpecs[1].branch]) \ Anc(localRef[branchSpecs[1].localBranch]))

(* GitPoller._process_changes, lines 318-333: changeCount is reset, git log
   runs; its revisions are counted at once, or it fails and
   _process_changes_failure eats the failure. *)
GitPoller_log(ok) ==
    /\ ppc = "log"
    /\ ok => origin[branchSpecs[1].branch] # 0 /\ localRef[branchSpecs[1].localBranch] # 0
    /\ revList' = IF ok THEN GitPoller_revList ELSE <<>>
    /\ changeCount' = IF ok THEN Len(GitPoller_revList) ELSE 0
    /\ ppc' = IF ok /\ GitPoller_revList # <<>> THEN "gather" ELSE "catch_up"
    /\ faulty' = (faulty \/ ~ok)
    /\ running' = IF ok THEN running ELSE process_changes_failure(running)
    /\ UNCHANGED <<schedVars, depVars, treeVars, parseVars, gitVars, cfgVars, last_head,
                   allHistory, started, lockVars, bi, currentBranches, historic_mode, inflight,
                   knownTips, range, emitted, cycle, local0>>

(* Lines 338-354: the four git commands about the oldest revision left end; if
   one of them failed the first failure is raised, else addChange is called. *)
GitPoller_get_commit(ok) ==
    /\ ppc = "gather"
    /\ ppc' = IF ok THEN "add" ELSE "catch_up"
    /\ inflight' = IF ok THEN {Head(revList)} ELSE {}
    /\ faulty' = (faulty \/ ~ok)
    /\ running' = IF ok THEN running ELSE process_changes_failure(running)
    /\ UNCHANGED <<schedVars, depVars, treeVars, parseVars, gitVars, cfgVars, last_head,
                   allHistory, changeCount, started, lockVars, bi, currentBranches,
                   historic_mode, revList, knownTips, range, emitted, cycle, local0>>

(* Lines 357-370: master.addChange's deferred fires; the loop goes to the next
   revision, or the failure ends _process_changes. *)
GitPoller_addChange(ok) ==
    /\ ppc = "add"
    /\ emitted' = IF ok
                  THEN Append(emitted, [revision |-> Head(revList), branch |-> branchSpecs[1].branch,
                                        skip_build |-> FALSE, cycle |-> cycle])
                  ELSE emitted
    /\ revList' = IF ok THEN Tail(revList) ELSE revList
    /\ inflight' = {}
    /\ ppc' = IF ok /\ Tail(revList) # <<>> THEN "gather" ELSE "catch_up"
    /\ faulty' = (faulty \/ ~ok)
    /\ running' = IF ok THEN running ELSE process_changes_failure(running)
    /\ UNCHANGED <<schedVars, depVars, treeVars, parseVars, gitVars, cfgVars, last_head,
                   allHistory, changeCount, started, lockVars, bi, currentBranches,
                   historic_mode, knownTips, range, cycle, local0>>

(* GitPoller._catch_up (bare), lines 378-391: nothing when changeCount is 0;
   otherwise git branch -f --no-track <localBranch> <remoteName>/<branch>,
   whose failure _catch_up_failure logs.  Then the lock is released. *)
GitPoller_catch_up(p, ok) ==
    /\ proc[p] = "critical"
    /\ ppc = "catch_up"
    /\ changeCount = 0 => ok
    /\ localRef' = IF changeCount # 0 /\ ok
                   THEN [localRef EXCEPT ![branchSpecs[1].localBranch] = origin[branchSpecs[1].branch]]
                   ELSE localRef
    /\ ppc' = "idle"
    /\ revList' = <<>>
    /\ faulty' = (faulty \/ ~ok)
    /\ running' = IF ok THEN running ELSE catch_up_failure(running)
    /\ release(p, "idle")
    /\ UNCHANGED <<schedVars, depVars, treeVars, parseVars, parents, origin, remoteAdded,
                   cfgVars, last_head, allHistory, changeCount, started, bi, currentBranches,
                   historic_mode, inflight, knownTips, range, emitted, cycle, local0>>

(* The single-branch GitPoller: started and initialized as above, then its own
   cycle. *)
GitPollerNext ==
    \/ startService
    \/ \E ok \in BOOLEAN : initRepository(ok)
    \/ \E outcome \in {"ok", "fails", "init_master_fails"}, o \in FetchOnSetup,
          failed \in SUBSET LocalNames : setupRepository(outcome, o, failed)
    \/ \E p \in Callers : poll(p)
    \/ \E p \in Callers, o \in FetchIgnoringErrors : GitPoller_get_changes(p, o)
    \/ \E ok \in BOOLEAN : GitPoller_log(ok)
    \/ \E ok \in BOOLEAN : GitPoller_get_commit(ok)
    \/ \E ok \in BOOLEAN : GitPoller_addChange(ok)
    \/ \E p \in Callers, ok \in BOOLEAN : GitPoller_catch_up(p, ok)

(***************************************************************************)
(* Scheduler (schedulers/basic.py).                                        *)
(***************************************************************************)
Timers == {None} \cup (1..MaxTimer)

Store == [scheduler_changes |-> scheduler_changes, buildsets |-> buildsets,
          retired |-> retired]

(* The branches changes arrive on that pass the scheduler's change filter: one
   for a Scheduler (its branch), several for an AnyBranchScheduler. *)
Branches == IF fanning THEN {"a", "b"} ELSE {"a"}

SchedInitOf(kind) ==
    /\ changes = <<>>
    /\ last_processed = 0
    /\ scheduler_changes = {}
    /\ buildsets = <<>>
    /\ retired = <<>>
    /\ t = [scheduler_changes |-> {}, buildsets |-> <<>>, retired |-> <<>>]
    /\ before = [scheduler_changes |-> {}, buildsets |-> <<>>, stableAt |-> None]
    /\ treeStableTimer \in Timers
    /\ fanning = kind
    /\ todo = {}
    /\ stableAt = None
    /\ important = {}
    /\ unimportant = {}
    /\ wakeup = None
    /\ raised = "no"
    /\ rerun = FALSE
    /\ pc = "idle"
    /\ now = 0
    /\ evalNow = 0

SchedInit == SchedInitOf(FALSE)

(* The clock advances. *)
Tick ==
    /\ now < MaxTime
    /\ now' = now + 1
    /\ UNCHANGED <<pollVars, depVars, treeVars, parseVars, fanning, changes, last_processed, scheduler_changes, buildsets, retired, t,
                   before, treeStableTimer, stableAt, important, unimportant, wakeup,
                   raised, rerun, pc, evalNow, todo>>

(* The timestamps a newly arriving change may carry: the commit's, up to MaxAge
   seconds old. *)
Ages == {w \in 0..now : w >= now - MaxAge}

(* The store's addChange: append a change, assigning the next number.  Its
   importance is what fileIsImportant will say of it. *)
addChange(w, imp, b) ==
    /\ Len(changes) < MaxChanges
    /\ changes' = Append(changes, [when |-> w, important |-> imp, branch |-> b])
    /\ UNCHANGED <<pollVars, depVars, treeVars, parseVars, fanning, last_processed, scheduler_changes, buildsets, retired, t, before,
                   treeStableTimer, stableAt, important, unimportant, wakeup, raised,
                   rerun, pc, now, evalNow, todo>>

(* Scheduler.run, first interaction: classify_changes moves every change the
   scheduler has not seen yet into scheduler_changes. *)
classify_changes ==
    /\ pc = "idle"
    /\ LET new == (last_processed + 1) .. Len(changes) IN
        /\ scheduler_changes' = scheduler_changes \cup new
        /\ rerun' = (rerun /\ new = {})
    /\ last_processed' = Len(changes)
    /\ pc' = "process"
    \* a new evaluation: nothing is left of the previous one's locals and result
    /\ important' = {}
    /\ unimportant' = {}
    /\ wakeup' = None
    /\ raised' = "no"
    /\ evalNow' = 0
    /\ before' = [scheduler_changes |-> {}, buildsets |-> <<>>, stableAt |-> None]
    /\ todo' = {}
    /\ UNCHANGED <<pollVars, depVars, treeVars, parseVars, fanning, changes, buildsets, retired, t, treeStableTimer, stableAt, now>>

(* Mutant: the oldest timestamp is taken. *)
most_recent_oldest(all_changes) == Min({changes[c].when : c \in all_changes})

(* max([c.when for c in all_changes]) *)
most_recent(all_changes) == Max({changes[c].when : c \in all_changes})

(* Mutant: the window is taken to be still open at the instant it closes
   (stableAt >= now instead of stableAt > now). *)
decide_lateByOne(imp, unimp, timer, time, sa) ==
    IF imp = {}
    THEN [stableAt |-> sa, wakeup |-> None, build |-> FALSE, raise |-> FALSE]
    ELSE IF timer # None /\ most_recent(imp \cup unimp) + timer >= time
    THEN [stableAt |-> most_recent(imp \cup unimp) + timer,
          wakeup |-> most_recent(imp \cup unimp) + timer + 1,
          build |-> FALSE, raise |-> FALSE]
    ELSE [stableAt |-> None, wakeup |-> None, build |-> TRUE, raise |-> FALSE]

(* Mutant: the early return of line 108-109 is missing, so that max() of an
   empty list raises and a lone unimportant change is built. *)
decide_noEarlyReturn(imp, unimp, timer, time, sa) ==
    IF imp \cup unimp = {}
    THEN [stableAt |-> sa, wakeup |-> None, build |-> FALSE, raise |-> TRUE]
    ELSE IF timer # None /\ most_recent(imp \cup unimp) + timer > time
    THEN [stableAt |-> most_recent(imp \cup unimp) + timer,
          wakeup |-> most_recent(imp \cup unimp) + timer + 1,
          build |-> FALSE, raise |-> FALSE]
    ELSE [stableAt |-> None, wakeup |-> None, build |-> TRUE, raise |-> FALSE]

(* Mutant: the build path does not clear stableAt (line 121 missing). *)
decide_keepsStableAt(imp, unimp, timer, time, sa) ==
    IF imp = {}
    THEN [stableAt |-> sa, wakeup |-> None, build |-> FALSE, raise |-> FALSE]
    ELSE IF timer # None /\ most_recent(imp \cup unimp) + timer > time
    THEN [stableAt |-> most_recent(imp \cup unimp) + timer,
          wakeup |-> most_recent(imp \cup unimp) + timer + 1,
          build |-> FALSE, raise |-> FALSE]
    ELSE [stableAt |-> IF timer = None THEN sa ELSE most_recent(imp \cup unimp) + timer,
          wakeup |-> None, build |-> TRUE, raise |-> FALSE]

(* Mutant: unimportant changes open the window too (the test of line 108 is
   made on all the changes), though only important ones get a build. *)
decide_armsOnUnimportant(imp, unimp, timer, time, sa) ==
    IF imp \cup unimp = {}
    THEN [stableAt |-> sa, wakeup |-> None, build |-> FALSE, raise |-> FALSE]
    ELSE IF timer # None /\ most_recent(imp \cup unimp) + timer > time
    THEN [stableAt |-> most_recent(imp \cup unimp) + timer,
          wakeup |-> most_recent(imp \cup unimp) + timer + 1,
          build |-> FALSE, raise |-> FALSE]
    ELSE IF imp = {}
    THEN [stableAt |-> sa, wakeup |-> None, build |-> FALSE, raise |-> FALSE]
    ELSE [stableAt |-> None, wakeup |-> None, build |-> TRUE, raise |-> FALSE]

(* Mutant: the wake-up time returned is stableAt itself, without the second
   added on line 118. *)
decide_wakesAtStableAt(imp, unimp, timer, time, sa) ==
    IF imp = {}
    THEN [stableAt |-> sa, wakeup |-> None, build |-> FALSE, raise |-> FALSE]
    ELSE IF timer # None /\ most_recent(imp \cup unimp) + timer > time
    THEN [stableAt |-> most_recent(imp \cup unimp) + timer,
          wakeup |-> most_recent(imp \cup unimp) + timer,
          build |-> FALSE, raise |-> FALSE]
    ELSE [stableAt |-> None, wakeup |-> None, build |-> TRUE, raise |-> FALSE]

(* decide_and_remove_changes up to the call of _add_build_and_remove_changes:
   what self.stableAt becomes, what is returned, whether a build is to be made,
   and whether the code raised. *)
decide_and_remove_changes(imp, unimp, timer, time, sa) ==
    IF imp = {}
    THEN [stableAt |-> sa, wakeup |-> None, build |-> FALSE, raise |-> FALSE]
    ELSE IF timer # None /\ most_recent(imp \cup unimp) + timer > time
    THEN [stableAt |-> most_recent(imp \cup unimp) + timer,
          wakeup |-> most_recent(imp \cup unimp) + timer + 1,
          build |-> FALSE, raise |-> FALSE]
    ELSE [stableAt |-> None, wakeup |-> None, build |-> TRUE, raise |-> FALSE]

(* Scheduler._process_changes: the interaction begins, reads the classified
   changes and decides. *)
_process_changes ==
    /\ pc = "process"
    /\ ~fanning
    /\ LET imp == {c \in scheduler_changes : changes[c].important}
           unimp == {c \in scheduler_changes : ~changes[c].important}
           d == decide_and_remove_changes(imp, unimp, treeStableTimer, now, stableAt)
       IN
        /\ important' = imp
        /\ unimportant' = unimp
        /\ stableAt' = d.stableAt
        /\ wakeup' = d.wakeup
        /\ raised' = IF d.raise THEN "code" ELSE "no"
        /\ pc' = IF d.raise THEN "idle" ELSE IF d.build THEN "add_build" ELSE "commit"
    /\ t' = Store
    /\ before' = [scheduler_changes |-> scheduler_changes, buildsets |-> buildsets,
                  stableAt |-> stableAt]
    /\ evalNow' = now
    /\ UNCHANGED <<pollVars, depVars, treeVars, parseVars, fanning, changes, last_processed, scheduler_changes, buildsets, retired,
                   treeStableTimer, rerun, now, todo>>

(* min(delays), delays being the wake-up times collected so far and one
   more. *)
min_delays(sofar, delay) ==
    IF delay = None THEN sofar
    ELSE IF sofar = None THEN delay
    ELSE Min({sofar, delay})

(* AnyBranchScheduler._process_changes, lines 178-187: the interaction begins,
   reads the classified changes and sorts them by branch. *)
AnyBranch_process_changes ==
    /\ pc = "process"
    /\ fanning
    /\ important' = {c \in scheduler_changes : changes[c].important}
    /\ unimportant' = {c \in scheduler_changes : ~changes[c].important}
    /\ todo' = {changes[c].branch : c \in scheduler_changes}
    /\ wakeup' = None
    /\ pc' = IF scheduler_changes = {} THEN "commit" ELSE "branch"
    /\ t' = Store
    /\ before' = [scheduler_changes |-> scheduler_changes, buildsets |-> buildsets,
                  stableAt |-> stableAt]
    /\ evalNow' = now
    /\ UNCHANGED <<pollVars, depVars, treeVars, parseVars, fanning, changes, last_processed, scheduler_changes, buildsets, retired,
                   treeStableTimer, stableAt, raised, rerun, now>>

(* Mutant: the changes are not sorted by branch; every branch gets them all. *)
branch_changes_ungrouped(res, b) ==
    [important |-> {c \in res : changes[c].important},
     unimportant |-> {c \in res : ~changes[c].important}]

(* branch_changes[b]: the important and the unimportant changes of branch b
   among the classified changes res. *)
branch_changes(res, b) ==
    [important |-> {c \in res : changes[c].important /\ changes[c].branch = b},
     unimportant |-> {c \in res : ~changes[c].important /\ changes[c].branch = b}]

(* AnyBranchScheduler._process_changes, lines 188-196: the loop body for one
   branch, the branches being taken in the order of the dictionary, which is
   any order; decide_and_remove_changes decides on the changes of the branch
   and its wake-up time joins delays. *)
decide_branch(b) ==
    /\ pc = "branch"
    /\ b \in todo
    /\ LET b_important == branch_changes(before.scheduler_changes, b).important
           b_unimportant == branch_changes(before.scheduler_changes, b).unimportant
           d == decide_and_remove_changes(b_important, b_unimportant, treeStableTimer,
                                          now, stableAt)
       IN
        /\ important' = b_important
        /\ unimportant' = b_unimportant
        /\ stableAt' = d.stableAt
        /\ wakeup' = min_delays(wakeup, d.wakeup)
        /\ pc' = IF d.build THEN "add_build"
                 ELSE IF todo = {b} THEN "commit" ELSE "branch"
    /\ todo' = todo \ {b}
    /\ UNCHANGED <<pollVars, depVars, treeVars, parseVars, fanning, changes, last_processed, scheduler_changes, buildsets, retired,
                   t, before, treeStableTimer, raised, rerun, now, evalNow>>

(* Mutant: without a treeStableTimer every change, important or not, gets its
   own build. *)
SourceStamps_allChanges(imp, unimp, timer) ==
    IF timer = None
    THEN [i \in 1..Cardinality(imp \cup unimp) |-> <<SortByNumber(imp \cup unimp)[i]>>]
    ELSE <<SortByNumber(imp \cup unimp)>>

(* Mutant: the list important + unimportant is used as it is, each part in
   store order, without the sort of line 130. *)
SourceStamps_importantFirst(imp, unimp, timer) ==
    IF timer = None
    THEN [i \in 1..Cardinality(imp) |-> <<SortByNumber(imp)[i]>>]
    ELSE <<SortByNumber(imp) \o SortByNumber(unimp)>>

(* The SourceStamps _add_build_and_remove_changes builds, in creation order. *)
SourceStamps(imp, unimp, timer) ==
    IF timer = None
    THEN [i \in 1..Cardinality(imp) |-> <<SortByNumber(imp)[i]>>]
    ELSE <<SortByNumber(imp \cup unimp)>>

(* Mutant: only the important changes are retired. *)
changeids_importantOnly(imp, unimp) == imp

(* changeids = [c.number for c in all_changes] *)
changeids(imp, unimp) == imp \cup unimp

(* Mutant: the buildsets are written outside the transaction (committed at
   once), the retirement inside it. *)
create_buildsets_autocommit ==
    /\ pc = "add_build"
    /\ LET ss == SourceStamps(important, unimportant, treeStableTimer)
           k == Len(t.retired) + 1
           new == [i \in 1..Len(ss) |->
                     [changes |-> ss[i], reason |-> "scheduler", trigger |-> k]]
       IN /\ t' = [t EXCEPT !.buildsets = @ \o new]
          /\ buildsets' = buildsets \o new
    /\ pc' = "retire"
    /\ UNCHANGED <<pollVars, depVars, treeVars, parseVars, fanning, changes, last_processed, scheduler_changes, retired,
                   before, treeStableTimer, stableAt, important, unimportant, wakeup,
                   raised, rerun, now, evalNow, todo>>

(* _add_build_and_remove_changes, lines 130-146: the buildsets, inside t. *)
create_buildsets ==
    /\ pc = "add_build"
    /\ LET ss == SourceStamps(important, unimportant, treeStableTimer)
           k == Len(t.retired) + 1
       IN t' = [t EXCEPT !.buildsets = @ \o
                    [i \in 1..Len(ss) |->
                        [changes |-> ss[i], reason |-> "scheduler", trigger |-> k]]]
    /\ pc' = "retire"
    /\ UNCHANGED <<pollVars, depVars, treeVars, parseVars, fanning, changes, last_processed, scheduler_changes, buildsets, retired,
                   before, treeStableTimer, stableAt, important, unimportant, wakeup,
                   raised, rerun, now, evalNow, todo>>

(* _add_build_and_remove_changes, lines 148-151: the retirement, inside t. *)
scheduler_retire_changes ==
    /\ pc = "retire"
    /\ t' = [t EXCEPT !.scheduler_changes = @ \ changeids(important, unimportant),
                      !.retired = Append(@, changeids(important, unimportant))]
    /\ pc' = IF todo = {} THEN "commit" ELSE "branch"
    /\ UNCHANGED <<pollVars, depVars, treeVars, parseVars, fanning, changes, last_processed, scheduler_changes, buildsets, retired,
                   before, treeStableTimer, stableAt, important, unimportant, wakeup,
                   raised, rerun, now, evalNow, todo>>

(* runInteraction commits: the working copy becomes the store. *)
Commit ==
    /\ pc = "commit"
    /\ scheduler_changes' = t.scheduler_changes
    /\ buildsets' = t.buildsets
    /\ retired' = t.retired
    /\ rerun' = (rerun \/ Len(t.retired) > Len(retired))
    /\ pc' = "idle"
    /\ UNCHANGED <<pollVars, depVars, treeVars, parseVars, fanning, changes, last_processed, t, before, treeStableTimer, stableAt,
                   important, unimportant, wakeup, raised, now, evalNow, todo>>

(* runInteraction fails (a database call or the commit raises): the working
   copy is dropped, the deferred errbacks.  What the Scheduler changed in
   memory stays changed. *)
Abort ==
    /\ pc \in {"add_build", "retire", "commit"}
    /\ t' = Store
    /\ wakeup' = None
    /\ raised' = "db"
    /\ pc' = "idle"
    /\ todo' = {}
    /\ UNCHANGED <<pollVars, depVars, treeVars, parseVars, fanning, changes, last_processed, scheduler_changes, buildsets, retired,
                   before, treeStableTimer, stableAt, important, unimportant, rerun,
                   now, evalNow>>

(***************************************************************************)
(* The Dependent scheduler (basic.py, class Dependent).                    *)
(***************************************************************************)

(* Results of a buildset (buildbot.status.builder); "none" while it is not
   complete. *)
Results == {"SUCCESS", "WARNINGS", "FAILURE", "EXCEPTION"}

SourceStampIds == {"s1", "s2"}

NoTransaction == [created |-> <<>>, unsubscribed |-> {}]

DependentInit ==
    /\ up_buildsets = <<>>
    /\ subscriptions = {}
    /\ down_buildsets = <<>>
    /\ unsubscribed = <<>>
    /\ dt = NoTransaction
    /\ seen = {}
    /\ rows = {}
    /\ dpc = "idle"

(* No Dependent scheduler is configured. *)
DependentOff == DependentInit

(* The upstream scheduler creates a buildset; its create_buildset calls
   buildSetSubmitted of the Dependent in the same transaction, which subscribes
   to the new buildset.  The transaction commits. *)
buildSetSubmitted(ssid) ==
    /\ Len(up_buildsets) < MaxUpstream
    /\ up_buildsets' = Append(up_buildsets, [ssid |-> ssid, complete |-> FALSE, results |-> "none"])
    /\ subscriptions' = subscriptions \cup {Len(up_buildsets) + 1}
    /\ UNCHANGED <<schedVars, pollVars, treeVars, parseVars, down_buildsets, unsubscribed, dt, seen, rows, dpc>>

(* The builds of an upstream buildset finish: it becomes complete, with its
   results. *)
buildset_complete(bsid, results) ==
    /\ bsid \in DOMAIN up_buildsets
    /\ ~up_buildsets[bsid].complete
    /\ up_buildsets' = [up_buildsets EXCEPT ![bsid].complete = TRUE, ![bsid].results = results]
    /\ UNCHANGED <<schedVars, pollVars, treeVars, parseVars, subscriptions, down_buildsets, unsubscribed, dt, seen,
                   rows, dpc>>

(* scheduler_get_subscribed_buildsets: (bsid, ssid, complete, results) of
   every active subscription. *)
scheduler_get_subscribed_buildsets ==
    {[bsid |-> b, ssid |-> up_buildsets[b].ssid, complete |-> up_buildsets[b].complete,
      results |-> up_buildsets[b].results] : b \in subscriptions}

(* Dependent.run: the interaction begins and _run reads the subscriptions. *)
Dependent_run ==
    /\ dpc = "idle"
    /\ seen' = scheduler_get_subscribed_buildsets
    /\ rows' = scheduler_get_subscribed_buildsets
    /\ dt' = NoTransaction
    /\ dpc' = IF subscriptions = {} THEN "commit" ELSE "loop"
    /\ UNCHANGED <<schedVars, pollVars, treeVars, parseVars, up_buildsets, subscriptions, down_buildsets, unsubscribed>>

(* Mutant: a buildset is created whatever the results of the upstream one. *)
run_row_anyResults(row, tx) ==
    IF row.complete
    THEN [created |-> Append(tx.created, [ssid |-> row.ssid, reason |-> "downstream",
                                          upstream |-> row.bsid]),
          unsubscribed |-> tx.unsubscribed \cup {row.bsid}]
    ELSE tx

(* Mutant: the subscription is dropped only when no buildset was created. *)
run_row_keepsSubscription(row, tx) ==
    IF row.complete
    THEN IF row.results \in {"SUCCESS", "WARNINGS"}
         THEN [tx EXCEPT !.created = Append(@, [ssid |-> row.ssid, reason |-> "downstream",
                                                upstream |-> row.bsid])]
         ELSE [tx EXCEPT !.unsubscribed = @ \cup {row.bsid}]
    ELSE tx

(* The body of the loop of Dependent._run for one row of res, as what it does
   to the transaction. *)
run_row(row, tx) ==
    IF row.complete
    THEN [created |-> IF row.results \in {"SUCCESS", "WARNINGS"}
                      THEN Append(tx.created, [ssid |-> row.ssid, reason |-> "downstream",
                                               upstream |-> row.bsid])
                      ELSE tx.created,
          unsubscribed |-> tx.unsubscribed \cup {row.bsid}]
    ELSE tx

(* Dependent._run, lines 224-228: one turn of the loop. *)
Dependent_run_row(row) ==
    /\ dpc = "loop"
    /\ row \in rows
    /\ dt' = run_row(row, dt)
    /\ rows' = rows \ {row}
    /\ dpc' = IF rows = {row} THEN "commit" ELSE "loop"
    /\ UNCHANGED <<schedVars, pollVars, treeVars, parseVars, up_buildsets, subscriptions, down_buildsets, unsubscribed,
                   seen>>

(* The subscriptions dropped by the transaction tx, lowest bsid first. *)
RECURSIVE InOrder(_)
InOrder(S) == IF S = {} THEN <<>> ELSE <<Min(S)>> \o InOrder(S \ {Min(S)})

(* runInteraction commits what _run did. *)
Dependent_commit ==
    /\ dpc = "commit"
    /\ down_buildsets' = down_buildsets \o dt.created
    /\ subscriptions' = subscriptions \ dt.unsubscribed
    /\ unsubscribed' = unsubscribed \o InOrder(dt.unsubscribed)
    /\ dt' = NoTransaction
    /\ dpc' = "idle"
    /\ UNCHANGED <<schedVars, pollVars, treeVars, parseVars, up_buildsets, seen, rows>>

(* runInteraction fails: what _run did is rolled back. *)
Dependent_abort ==
    /\ dpc \in {"loop", "commit"}
    /\ dt' = NoTransaction
    /\ rows' = {}
    /\ dpc' = "idle"
    /\ UNCHANGED <<schedVars, pollVars, treeVars, parseVars, up_buildsets, subscriptions, down_buildsets, unsubscribed,
                   seen>>

DependentNext ==
    \/ \E ssid \in SourceStampIds : buildSetSubmitted(ssid)
    \/ \E bsid \in 1..MaxUpstream, results \in Results : buildset_complete(bsid, results)
    \/ Dependent_run
    \/ \E row \in rows : Dependent_run_row(row)
    \/ Dependent_commit
    \/ Dependent_abort

SchedNext ==
    \/ Tick
    \/ \E w \in Ages, imp \in BOOLEAN, b \in Branches : addChange(w, imp, b)
    \/ classify_changes
    \/ _process_changes
    \/ create_buildsets
    \/ scheduler_retire_changes
    \/ Commit
    \/ Abort

SchedSpecInit == SchedInit /\ PollerOff /\ DependentOff

SchedSpec == SchedSpecInit /\ [][SchedNext]_vars

(* A Scheduler with a treeStableTimer whose changes are all in the store
   already, at time 0 or 1: no further change arrives and no interaction
   fails. *)
DebounceSpecInit ==
    /\ PollerOff /\ DependentOff
    /\ last_processed = 0
    /\ scheduler_changes = {}
    /\ buildsets = <<>>
    /\ retired = <<>>
    /\ t = [scheduler_changes |-> {}, buildsets |-> <<>>, retired |-> <<>>]
    /\ before = [scheduler_changes |-> {}, buildsets |-> <<>>, stableAt |-> None]
    /\ treeStableTimer \in Timers \ {None}
    /\ fanning = FALSE
    /\ todo = {}
    /\ stableAt = None
    /\ important = {}
    /\ unimportant = {}
    /\ wakeup = None
    /\ raised = "no"
    /\ rerun = FALSE
    /\ pc = "idle"
    /\ evalNow = 0
    /\ \E n \in 1..MaxChanges :
          changes \in [1..n -> [when : {0, 1}, important : BOOLEAN, branch : {"a"}]]
    /\ \A i \in DOMAIN changes : i > 1 => changes[i - 1].when <= changes[i].when
    /\ now = 1

DebounceNext ==
    \/ Tick
    \/ classify_changes
    \/ _process_changes
    \/ create_buildsets
    \/ scheduler_retire_changes
    \/ Commit

(* Time advances, the scheduler is run again and again (so also at or after
   each wake-up time it returned), and the steps of a run are taken. *)
DebounceFairness ==
    /\ WF_vars(Tick)
    /\ WF_vars(classify_changes)
    /\ WF_vars(_process_changes)
    /\ WF_vars(create_buildsets)
    /\ WF_vars(scheduler_retire_changes)
    /\ WF_vars(Commit)

DebounceSpec == DebounceSpecInit /\ [][DebounceNext]_vars /\ DebounceFairness

(* An AnyBranchScheduler alone. *)
AnyBranchNext ==
    \/ Tick
    \/ /\ Len(changes) < MaxBranchChanges
       /\ \E w \in Ages, imp \in BOOLEAN, b \in Branches : addChange(w, imp, b)
    \/ classify_changes
    \/ AnyBranch_process_changes
    \/ \E b \in Branches : decide_branch(b)
    \/ create_buildsets
    \/ scheduler_retire_changes
    \/ Commit
    \/ Abort

AnyBranchSpecInit ==
    SchedInitOf(TRUE) /\ treeStableTimer \in {None, MaxTimer} /\ PollerOff /\ DependentOff

AnyBranchSpec == AnyBranchSpecInit /\ [][AnyBranchNext]_vars

(* No Scheduler on changes: its variables never change. *)
ChangeSchedulerOff == SchedInit /\ treeStableTimer = None

(* No scheduler of any kind. *)
SchedulerOff == ChangeSchedulerOff /\ DependentOff

(* A Dependent scheduler and its upstream's buildsets alone. *)
DependentSpecInit == DependentInit /\ ChangeSchedulerOff /\ PollerOff

DependentSpec == DependentSpecInit /\ [][DependentNext]_vars

(* A GitMultiPoller on two remote branches, polled by its polling loop. *)
PollSpecInit == PollInit(<<"a", "b">>, 1, MaxPolls) /\ SchedulerOff

PollSpec == PollSpecInit /\ [][PollNext]_vars

(* A GitMultiPoller on three remote branches, to backfill their history. *)
BackfillSpecInit == PollInit(<<"a", "b", "c">>, 1, MaxBackfillPolls) /\ allHistoryCfg /\ SchedulerOff

BackfillSpec == BackfillSpecInit /\ [][PollNext]_vars

(* A GitMultiPoller on one remote branch whose poll has several callers. *)
LockSpecInit == PollInit(<<"a">>, MaxCallers, MaxPolls) /\ SchedulerOff

LockSpec == LockSpecInit /\ [][PollNext]_vars

(* A GitMultiPoller on one local-only branch, to which somebody commits. *)
LocalSpecInit ==
    PollInitSpecs(<<[branch |-> "", localBranch |-> "l"]>>, 1, MaxPolls) /\ SchedulerOff

LocalNext ==
    \/ PollNext
    \/ \E lb \in LocalNames, c \in Commits : local_commit(lb, c)

LocalSpec == LocalSpecInit /\ [][LocalNext]_vars

(* The single-branch GitPoller on branch a. *)
GitPollerSpecInit == PollInit(<<"a">>, 1, MaxPolls) /\ ~allHistoryCfg /\ SchedulerOff

GitPollerSpec == GitPollerSpecInit /\ [][GitPollerNext]_vars

(* The parser on the output of one git log. *)
ParseSpecInit == ParseInit /\ GitOff /\ SchedulerOff

ParseSpec == ParseSpecInit /\ [][ParseNext]_vars

(* Two remote branches polled in a working copy, without allHistory. *)
WorkingCopySpecInit ==
    /\ PollInitMode(str2tuple(<<"a", "b">>), 1, MaxBackfillPolls, FALSE)
    /\ ~allHistoryCfg
    /\ SchedulerOff

WorkingCopySpec == WorkingCopySpecInit /\ [][WorkingCopyNext]_vars

(* A local-only and two remote branch specs, with allHistory, for a working
   repository that does not exist yet. *)
KnownTipsSpecInit ==
    /\ PollInitSpecs(<<[branch |-> "", localBranch |-> "l"],
                       [branch |-> "a", localBranch |-> "a"],
                       [branch |-> "b", localBranch |-> "b"]>>, 1, MaxBackfillPolls)
    /\ allHistoryCfg
    /\ ~repoExists
    /\ SchedulerOff

KnownTipsSpec == KnownTipsSpecInit /\ [][PollNext]_vars

(* Two remote branches polled incrementally. *)
CatchUpSpecInit == PollInit(<<"a", "b">>, 1, MaxBackfillPolls) /\ ~allHistoryCfg /\ SchedulerOff

CatchUpSpec == CatchUpSpecInit /\ [][PollNext]_vars

(* A GitMultiPoller on a remote branch and on a local-only branch, without
   backfill. *)
MixedSpecInit ==
    /\ PollInitSpecs(<<[branch |-> "a", localBranch |-> "a"],
                       [branch |-> "", localBranch |-> "l"]>>, 1, MaxBackfillPolls)
    /\ ~allHistoryCfg
    /\ SchedulerOff

MixedSpec == MixedSpecInit /\ [][LocalNext]_vars

(***************************************************************************)
(* Properties of the Scheduler, checked under SchedSpec.                   *)
(***************************************************************************)
(* How many buildsets of the store reference change c. *)
InBuildsets(c) == Cardinality({i \in DOMAIN buildsets : c \in Range(buildsets[i].changes)})

(* How many retirements of the store name change c. *)
TimesRetired(c) == Cardinality({k \in DOMAIN retired : c \in retired[k]})

(* The buildsets the running evaluation has created inside its transaction. *)
NewBuildsets == SubSeq(t.buildsets, Len(buildsets) + 1, Len(t.buildsets))

(* The latest timestamp among the changes of S. *)
Latest(S) == Max({changes[c].when : c \in S})

(* C2: no change is dropped or double-counted.  In every committed store state
   each change is referenced by at most one buildset and retired at most once;
   a classified change is either still pending or retired, never both and
   never neither; a retired important change is in exactly one buildset; and
   a change in a buildset is retired. *)
C2_NoDropNoDouble ==
    \A c \in DOMAIN changes :
        /\ InBuildsets(c) <= 1
        /\ TimesRetired(c) <= 1
        /\ \A i \in DOMAIN buildsets :
              Cardinality({j \in DOMAIN buildsets[i].changes :
                              buildsets[i].changes[j] = c}) <= 1
        /\ (c <= last_processed) => ((c \in scheduler_changes) # (TimesRetired(c) = 1))
        /\ (c > last_processed) => (c \notin scheduler_changes /\ TimesRetired(c) = 0)
        /\ (changes[c].important /\ TimesRetired(c) = 1) => InBuildsets(c) = 1
        /\ (InBuildsets(c) = 1) => (TimesRetired(c) = 1)

C2_Witness ==
    /\ Len(buildsets) >= 2
    /\ \E c \in DOMAIN changes : ~changes[c].important /\ TimesRetired(c) = 1
    /\ \E c \in DOMAIN changes : changes[c].important /\ InBuildsets(c) = 1
    /\ pc = "idle"

(* C3 as claimed: with a debounce window W and pending important changes
   whose latest timestamp is T, an evaluation before T + W creates no buildset
   and an evaluation at T + W creates exactly one buildset holding all of
   them. *)
C3_DebounceLatestImportant ==
    (treeStableTimer # None /\ pc = "commit" /\ important # {}) =>
        /\ (evalNow < Latest(important) + treeStableTimer) => NewBuildsets = <<>>
        /\ (evalNow = Latest(important) + treeStableTimer) =>
              /\ Len(NewBuildsets) = 1
              /\ important \subseteq Range(NewBuildsets[1].changes)

(* C3 amended: T is the latest timestamp among all pending changes of the
   branch, unimportant ones included.  An evaluation before T + W (hence also
   before latest important + W) creates no buildset; an evaluation at T + W
   creates exactly one buildset holding all pending changes. *)
C3_DebounceLatestChange ==
    (treeStableTimer # None /\ pc = "commit" /\ important # {}) =>
        /\ (evalNow < Latest(important \cup unimportant) + treeStableTimer) =>
              NewBuildsets = <<>>
        /\ (evalNow < Latest(important) + treeStableTimer) => NewBuildsets = <<>>
        /\ (evalNow = Latest(important \cup unimportant) + treeStableTimer) =>
              /\ Len(NewBuildsets) = 1
              /\ Range(NewBuildsets[1].changes) = important \cup unimportant

C3_Witness ==
    /\ treeStableTimer # None
    /\ pc = "commit"
    /\ Cardinality(important) >= 2
    /\ \E a, b \in important : changes[a].when < changes[b].when
    /\ evalNow = Latest(important \cup unimportant) + treeStableTimer
    /\ Len(NewBuildsets) = 1

(* C4: buildset creation and retirement are atomic.  In every committed
   store state the trigger actions that have retired changes are exactly the
   trigger actions that have buildsets, each buildset's changes are among
   those its trigger retired, and what a trigger retired is no longer
   pending. *)
C4_AtomicTrigger ==
    /\ {buildsets[i].trigger : i \in DOMAIN buildsets} = DOMAIN retired
    /\ \A i \in DOMAIN buildsets :
          Range(buildsets[i].changes) \subseteq retired[buildsets[i].trigger]
    /\ \A k \in DOMAIN retired : retired[k] \cap scheduler_changes = {}

(* The transaction has created its buildsets and not yet retired anything. *)
C4_Witness ==
    /\ pc = "retire"
    /\ Len(t.buildsets) > Len(buildsets)
    /\ Len(buildsets) >= 1

(* C5 as claimed: after a failed (aborted) evaluation the pending changes, the
   buildsets and stableAt are what they were before it. *)
C5_AbortLeavesNoPartialState ==
    (pc = "idle" /\ raised = "db") =>
        /\ scheduler_changes = before.scheduler_changes
        /\ buildsets = before.buildsets
        /\ stableAt = before.stableAt

(* C6: an evaluation against a store in which a trigger has committed, and
   which has not changed since, is a no-op: it creates no buildset, retires
   nothing, leaves stableAt alone, returns no wake time and does not raise. *)
C6_RerunIsNoOp ==
    rerun =>
        /\ pc \notin {"add_build", "retire"}
        /\ raised # "code"
        /\ (pc = "commit") =>
              /\ t = Store
              /\ wakeup = None
              /\ stableAt = before.stableAt

C6_Witness ==
    /\ rerun
    /\ pc = "commit"
    /\ Len(buildsets) >= 1
    /\ before.buildsets = buildsets

(* C7: without a treeStableTimer an evaluation with N pending important
   changes creates N buildsets of one important change each, in ascending
   change number; the unimportant changes are in none of them and, when N > 0,
   are retired with the important ones; when N = 0 nothing is done. *)
C7_NoDebounce ==
    (treeStableTimer = None /\ pc = "commit") =>
        /\ Len(NewBuildsets) = Cardinality(important)
        /\ \A i \in DOMAIN NewBuildsets :
              /\ Len(NewBuildsets[i].changes) = 1
              /\ NewBuildsets[i].changes[1] \in important
        /\ \A i, j \in DOMAIN NewBuildsets :
              i < j => NewBuildsets[i].changes[1] < NewBuildsets[j].changes[1]
        /\ (important # {}) =>
              /\ t.scheduler_changes = {}
              /\ Len(t.retired) = Len(retired) + 1
              /\ t.retired[Len(t.retired)] = important \cup unimportant
        /\ (important = {}) => t = Store

C7_Witness ==
    /\ treeStableTimer = None
    /\ pc = "commit"
    /\ Cardinality(important) >= 2
    /\ unimportant # {}
    /\ Len(NewBuildsets) = 2

(***************************************************************************)
(* Properties of GitMultiPoller.                                           *)
(***************************************************************************)
(* How many changes of revision c the store accepted for remote branch b. *)
TimesEmitted(c, b) ==
    Cardinality({i \in DOMAIN emitted :
                    emitted[i].revision = c /\ emitted[i].branch = b})

(* Initialization succeeded and, after at least one poll cycle, no call is
   running or queued. *)
Quiescent ==
    /\ proc[<<"setupRepository", 0>>] = "done"
    /\ running
    /\ cycle >= 1
    /\ ppc = "idle"
    /\ \A p \in Callers : proc[p] = "idle"

(* Every local tracking ref is where its remote branch is: the poller has
   nothing left to report. *)
CaughtUp ==
    \A i \in Specs : localRef[branchSpecs[i].localBranch] = origin[branchSpecs[i].branch]

(* C1: once any sequence of poll cycles (each with its catch-up) has ended and
   the tracking refs are at the remote tips, the revisions submitted for a
   normal branch are the commits reachable from the remote tip but not from
   the initial local tracking ref, each exactly once. *)
C1_NoDuplicateEmission ==
    (Quiescent /\ CaughtUp /\ ~allHistoryCfg) =>
        \A i \in Specs : \A c \in Commits :
            TimesEmitted(c, branchSpecs[i].branch) =
                IF c \in Anc(origin[branchSpecs[i].branch])
                        \ Anc(local0[branchSpecs[i].localBranch])
                THEN 1 ELSE 0

(* The calls that are inside their critical section. *)
Critical == {p \in DOMAIN proc : proc[p] = "critical"}

(* C8: at no time are two of initRepository, setupRepository and the poll
   cycles inside their critical section together; every step of a poll
   cycle (fetch, log, addChange, catch-up) is made by the one call that holds
   initLock, and a call is queued only while the lock is held. *)
C8_MutualExclusion ==
    /\ Cardinality(Critical) <= 1
    /\ (ppc # "idle") => (\E p \in Callers : Critical = {p})
    /\ (Critical # {}) => locked
    /\ (waiting # <<>>) => (locked /\ Critical # {})

C8_Witness ==
    \E p, q \in Callers :
        /\ proc[p] = "critical"
        /\ ppc = "add"
        /\ proc[q] = "waiting"
        /\ proc[<<"setupRepository", 0>>] \in {"waiting", "done"}

(* c is an ancestor of d, and not d. *)
Older(c, d) == c # d /\ c \in Anc(d)

(* The changes of the branch being processed that the store accepted in this
   poll cycle. *)
EmittedNow ==
    {i \in DOMAIN emitted :
        /\ emitted[i].cycle = cycle
        /\ bi # 0
        /\ emitted[i].branch = branchSpecs[bi].branch}

(* C9: the changes of one branch in one poll cycle are submitted oldest first
   by ancestry, and one at a time: of two changes of the same cycle and branch
   the earlier is an ancestor of the later, at most one submission is
   outstanding, and it is of a descendant of every change already submitted and
   an ancestor of every revision still to submit. *)
C9_OldestFirst ==
    /\ \A i, j \in DOMAIN emitted :
          (i < j /\ emitted[i].cycle = emitted[j].cycle
                 /\ emitted[i].branch = emitted[j].branch)
             => Older(emitted[i].revision, emitted[j].revision)
    /\ Cardinality(inflight) <= 1
    /\ \A c \in inflight :
          /\ \A i \in EmittedNow : Older(emitted[i].revision, c)
          /\ \A k \in DOMAIN revList : c = revList[k] \/ Older(c, revList[k])

C9_Witness ==
    /\ ppc = "add"
    /\ Cardinality(EmittedNow) >= 2
    /\ inflight # {}
    /\ cycle >= 1

(* C10: when a branch is backfilled while other tips are known, the log range
   asked for is mergeBase(known tips)..tip of the branch, and no revision to
   submit for it is reachable from a known tip. *)
C10_BackfillScoping ==
    (ppc = "add" /\ historic_mode /\ knownTips # {}) =>
        /\ range.start \in merge_base_octopus(knownTips)
        /\ range.tip = origin[branchSpecs[bi].branch]
        /\ \A c \in Range(revList) : c \notin AncAll(knownTips)

(* The changes the store accepted for branch b in a poll cycle before cycle
   n. *)
EmittedBefore(b, n) ==
    {k \in DOMAIN emitted : emitted[k].branch = b /\ emitted[k].cycle < n}

(* C11: for a local-only branch spec, last_head is the revision of the last
   change submitted for the branch, also when a submission failed partway;
   and the log range of the next poll starts at that revision and ends at the
   local branch, so that nothing submitted so far is listed again. *)
C11_LastHeadAdvances ==
    \A i \in LocalOnly :
        LET lb == branchSpecs[i].localBranch IN
        /\ EmittedBefore(lb, cycle + 1) # {}
              => last_head[i] = emitted[Max(EmittedBefore(lb, cycle + 1))].revision
        /\ (ppc = "add" /\ bi = i /\ ~historic_mode /\ EmittedBefore(lb, cycle) # {})
              => /\ range.start = emitted[Max(EmittedBefore(lb, cycle))].revision
                 /\ range.tip \in Anc(localRef[lb])
                 /\ \A c \in Range(revList) : c \notin Anc(range.start)

C11_Witness ==
    \E i \in LocalOnly :
        /\ ppc = "add"
        /\ bi = i
        /\ ~historic_mode
        /\ EmittedBefore(branchSpecs[i].localBranch, cycle) # {}
        /\ last_head[i] = range.start
        /\ revList # <<>>

(* The changes the store accepted for branch b in the current poll cycle. *)
EmittedInCycle(b) ==
    {k \in DOMAIN emitted : emitted[k].branch = b /\ emitted[k].cycle = cycle}

(* C12: with a single normal branch spec whose remote has advanced by n new
   commits, none of them a merge, a poll in which no call fails has submitted
   exactly those n commits, oldest first, and counted n when it comes to
   catch up (nothing and 0 when the remote has not moved); and once it has
   caught up the local tracking ref is at the remote tip. *)
C12_PollSubmitsNewCommits ==
    \A i \in Normal :
        LET b == branchSpecs[i].branch
            lb == branchSpecs[i].localBranch
            new == Anc(origin[b]) \ Anc(localRef[lb])
        IN (Specs = {i} /\ ~allHistoryCfg /\ cycle >= 1 /\ ~faulty) =>
            /\ (ppc = "catch_up" /\ \A c \in new : parents[c][2] = 0) =>
                  /\ {emitted[k].revision : k \in EmittedInCycle(b)} = new
                  /\ Cardinality(EmittedInCycle(b)) = Cardinality(new)
                  /\ \A k, l \in EmittedInCycle(b) :
                        k < l => Older(emitted[k].revision, emitted[l].revision)
                  /\ changeCount = Cardinality(new)
            /\ (ppc = "idle") => localRef[lb] = origin[b]

C12_Witness ==
    /\ Specs = Normal
    /\ Len(branchSpecs) = 1
    /\ ~allHistoryCfg
    /\ ~faulty
    /\ ppc = "catch_up"
    /\ changeCount = 2
    /\ Cardinality(EmittedInCycle(branchSpecs[1].branch)) = 2
    /\ parents[origin[branchSpecs[1].branch]][2] = 0

(***************************************************************************)
(* Further properties of the Scheduler.                                    *)
(***************************************************************************)
(* C13 as claimed: the quiet period is measured from the latest important
   pending change: a pending debounce time is that timestamp plus the window,
   and once that time has come the buildset is created, whatever unimportant
   change came later. *)
C13_StableAtFromLatestImportant ==
    (treeStableTimer # None /\ pc = "commit" /\ important # {}) =>
        /\ (stableAt # None) => stableAt = Latest(important) + treeStableTimer
        /\ (evalNow >= Latest(important) + treeStableTimer) => NewBuildsets # <<>>

(* C13 amended: the quiet period is measured from the latest pending change,
   important or not: an evaluation that creates no buildset leaves stableAt at
   that timestamp plus the window, later than the time it read, and returns
   stableAt + 1; a later unimportant change does delay the buildset. *)
C13_StableAtFromLatestChange ==
    (treeStableTimer # None /\ pc = "commit" /\ important # {}) =>
        /\ (stableAt # None) =>
              /\ stableAt = Latest(important \cup unimportant) + treeStableTimer
              /\ stableAt > evalNow
              /\ wakeup = stableAt + 1
              /\ NewBuildsets = <<>>
        /\ (stableAt = None) =>
              /\ evalNow >= Latest(important \cup unimportant) + treeStableTimer
              /\ NewBuildsets # <<>>

C13_Witness ==
    /\ treeStableTimer # None
    /\ pc = "commit"
    /\ important # {}
    /\ unimportant # {}
    /\ Latest(unimportant) > Latest(important)
    /\ evalNow >= Latest(important) + treeStableTimer
    /\ stableAt = Latest(unimportant) + treeStableTimer
    /\ NewBuildsets = <<>>

(***************************************************************************)
(* The debounce window of the schedulers, C14 to C18.                      *)
(***************************************************************************)

(* A branch is Armed in the working copy when important changes of it are
   pending there. *)
Armed(b) == \E c \in t.scheduler_changes : changes[c].important /\ changes[c].branch = b

(* C14: while the scheduler stays Armed, no buildset being created in between,
   an evaluation never decreases stableAt: when an evaluation that started
   with a pending time ends with a pending time and created no buildset, the
   pending time it ends with is not earlier than the one it started with. *)
C14_WindowNeverShrinks ==
    (pc = "commit" /\ before.stableAt # None /\ stableAt # None /\ NewBuildsets = <<>>) =>
        stableAt >= before.stableAt

(* C15: stableAt is None exactly when no debounce is pending: at the end of an
   evaluation the scheduler holds a pending time if and only if some branch is
   Armed, so that a buildset created for one branch leaves the pending time
   of a branch that is still Armed in place. *)
C15_StableAtIffPending ==
    (pc = "commit") => ((stableAt # None) <=> (\E b \in Branches : Armed(b)))

(* C16: whenever an evaluation creates a buildset for the pending changes of
   a branch, stableAt is None when the buildset is created and when the
   changes are retired, and it is still None after each of these steps: it is
   cleared before the create/retire step and not set again by it. *)
C16_ClearedAtCreation ==
    [][(pc \in {"add_build", "retire"}) => (stableAt = None /\ stableAt' = None)]_vars

(* An armed window has closed and the buildset is created in the working
   copy. *)
C16_Witness ==
    /\ pc = "retire"
    /\ treeStableTimer # None
    /\ before.stableAt # None
    /\ stableAt = None
    /\ NewBuildsets # <<>>

(* C17: when only unimportant changes are pending, an evaluation changes
   nothing: no buildset is created, no change is retired, stableAt is what it
   was, no wake-up time is returned, and the unimportant changes are still
   pending. *)
C17_UnimportantOnly ==
    (pc = "commit" /\ ~fanning /\ important = {} /\ unimportant # {}) =>
        /\ t = Store
        /\ NewBuildsets = <<>>
        /\ stableAt = before.stableAt
        /\ wakeup = None
        /\ unimportant \subseteq t.scheduler_changes

(* Only unimportant changes are pending, the youngest of them at least a
   debounce window old. *)
C17_Witness ==
    /\ pc = "commit"
    /\ ~fanning
    /\ treeStableTimer # None
    /\ important = {}
    /\ unimportant # {}
    /\ evalNow >= Latest(unimportant) + treeStableTimer

(* The changes of S that are on branch b. *)
OfBranch(S, b) == {c \in S : changes[c].branch = b}

(* The branches the running evaluation has created a buildset for. *)
BuiltBranches ==
    {changes[NewBuildsets[i].changes[1]].branch : i \in 1..Len(NewBuildsets)}

(* Branch b had important changes pending when the evaluation began. *)
WasArmed(b) == \E c \in OfBranch(before.scheduler_changes, b) : changes[c].important

(* C18: the AnyBranchScheduler decides for each branch on its own.  Every
   buildset holds changes of one branch only and every retirement retires
   changes of one branch only; at the end of an evaluation the changes still
   pending are exactly those of the branches that were not built; a branch
   whose window had closed when the evaluation began is built whatever the
   other branches do, and a branch whose window is still open is not; and the
   wake-up time returned is the least of the wake-up times of the branches
   still Armed, None when no branch is Armed. *)
C18_PerBranchDecision ==
    /\ \A i \in 1..Len(t.buildsets) : \A j, k \in 1..Len(t.buildsets[i].changes) :
           changes[t.buildsets[i].changes[j]].branch = changes[t.buildsets[i].changes[k]].branch
    /\ \A i \in 1..Len(t.retired) : \A c, d \in t.retired[i] :
           changes[c].branch = changes[d].branch
    /\ (fanning /\ pc = "commit") =>
        /\ t.scheduler_changes =
               {c \in before.scheduler_changes : changes[c].branch \notin BuiltBranches}
        /\ \A b \in Branches :
               /\ (/\ WasArmed(b)
                   /\ (treeStableTimer # None =>
                          evalNow >= Latest(OfBranch(before.scheduler_changes, b)) + treeStableTimer))
                      => b \in BuiltBranches
               /\ (/\ WasArmed(b)
                   /\ treeStableTimer # None
                   /\ now < Latest(OfBranch(before.scheduler_changes, b)) + treeStableTimer)
                      => b \notin BuiltBranches
               /\ ~WasArmed(b) => b \notin BuiltBranches
        /\ wakeup = IF \E b \in Branches : Armed(b)
                    THEN Min({Latest(OfBranch(t.scheduler_changes, b)) + treeStableTimer + 1 :
                                 b \in {x \in Branches : Armed(x)}})
                    ELSE None

(* One evaluation builds a branch whose window has closed while another
   branch stays Armed with its window open. *)
C18_Witness ==
    /\ fanning
    /\ pc = "commit"
    /\ NewBuildsets # <<>>
    /\ wakeup # None
    /\ \E b \in Branches : Armed(b)

(***************************************************************************)
(* The Dependent scheduler, C19 and C20.                                   *)
(***************************************************************************)

(* The downstream buildsets, those of the running transaction included. *)
AllDown == down_buildsets \o dt.created

(* C19: a downstream buildset exists only for an upstream buildset that is
   complete with results SUCCESS or WARNINGS, and it is made on the
   SourceStamp id of that upstream buildset; an upstream buildset that is not
   complete, or complete with other results, has no downstream buildset. *)
C19_DownstreamOnlyOnSuccess ==
    \A i \in 1..Len(AllDown) :
        /\ AllDown[i].upstream \in DOMAIN up_buildsets
        /\ up_buildsets[AllDown[i].upstream].complete
        /\ up_buildsets[AllDown[i].upstream].results \in {"SUCCESS", "WARNINGS"}
        /\ AllDown[i].ssid = up_buildsets[AllDown[i].upstream].ssid
        /\ AllDown[i].reason = "downstream"

(* An upstream buildset that ended with warnings has its downstream buildset,
   and one that failed was looked at and has none. *)
C19_Witness ==
    /\ \E i \in 1..Len(down_buildsets) :
           up_buildsets[down_buildsets[i].upstream].results = "WARNINGS"
    /\ \E b \in DOMAIN up_buildsets :
           /\ up_buildsets[b].results = "FAILURE"
           /\ b \notin subscriptions
           /\ \A i \in 1..Len(down_buildsets) : down_buildsets[i].upstream # b

(* How many times bsid b occurs in the sequence s of bsids. *)
Occurrences(s, b) == Cardinality({i \in 1..Len(s) : s[i] = b})

(* C20: each subscription is consumed exactly once.  An upstream buildset has
   at most one downstream buildset; its subscription is dropped at most once
   and is in place until then; a subscription to a buildset that is not
   complete is never dropped; and an evaluation drops the subscription of
   exactly those buildsets it saw complete, whether or not it created a
   buildset for them. *)
C20_ConsumedOnce ==
    /\ \A b \in DOMAIN up_buildsets :
           /\ Cardinality({i \in 1..Len(AllDown) : AllDown[i].upstream = b}) <= 1
           /\ Occurrences(unsubscribed, b) <= 1
           /\ (b \in subscriptions) <=> (Occurrences(unsubscribed, b) = 0)
           /\ ~up_buildsets[b].complete => (b \in subscriptions /\ b \notin dt.unsubscribed)
    /\ (dpc = "commit") =>
           \A row \in seen : (row.bsid \in dt.unsubscribed) <=> row.complete

(* After an evaluation has consumed the subscription of a buildset and made
   its downstream buildset, a later evaluation sees a buildset that is not
   complete. *)
C20_Witness ==
    /\ dpc = "commit"
    /\ Len(unsubscribed) >= 1
    /\ Len(down_buildsets) >= 1
    /\ \E row \in seen : ~row.complete

(***************************************************************************)
(* Catch-up and the failures of the poller, C21 to C29.                    *)
(***************************************************************************)

(* The changes the store accepted in the current poll cycle, for any
   branch. *)
EmittedThisCycle == {k \in DOMAIN emitted : emitted[k].cycle = cycle}

(* C21: what the catch-up step of a poll cycle does.  It moves nothing when the
   cycle counted no change (in particular when the first log query failed, and
   when a cycle without a failed call submitted nothing); it never touches the
   tracking ref or last_head of a local-only branch; a normal branch either
   stays or goes to the remote tip of the cycle's fetch; and when the cycle
   counted changes and no catch-up command fails, every normal branch is at
   its remote tip afterwards. *)
C21_CatchUpStep ==
    [][(ppc = "catch_up" /\ ppc' = "idle") =>
          /\ last_head' = last_head
          /\ \A i \in LocalOnly :
                 localRef'[branchSpecs[i].localBranch] = localRef[branchSpecs[i].localBranch]
          /\ \A i \in Normal :
                 localRef'[branchSpecs[i].localBranch]
                    \in {localRef[branchSpecs[i].localBranch], origin[branchSpecs[i].branch]}
          /\ changeCount = 0 => localRef' = localRef
          /\ (EmittedThisCycle = {} /\ ~faulty) => localRef' = localRef
          /\ localRef' # localRef => (EmittedThisCycle # {} \/ faulty)
          /\ (changeCount # 0 /\ ~faulty') =>
                 \A i \in Normal :
                    localRef'[branchSpecs[i].localBranch] = origin[branchSpecs[i].branch]
      ]_vars

(* A cycle has submitted changes of the remote branch and of the local-only
   branch and has caught up: the tracking ref of the remote branch has moved
   to the remote tip, the local-only branch is ahead of nothing. *)
C21_Witness ==
    /\ ppc = "idle"
    /\ cycle >= 1
    /\ ~faulty
    /\ \E i \in Normal :
           /\ EmittedInCycle(branchSpecs[i].branch) # {}
           /\ localRef[branchSpecs[i].localBranch] = origin[branchSpecs[i].branch]
           /\ localRef[branchSpecs[i].localBranch] # local0[branchSpecs[i].localBranch]
    /\ \E i \in LocalOnly :
           /\ EmittedInCycle(branchSpecs[i].localBranch) # {}
           /\ last_head[i] = localRef[branchSpecs[i].localBranch]

(* C22: the remote never rewriting history, a revision that a poll cycle
   submitted for a normal branch is not submitted again by a later cycle,
   whether or not the catch-up in between moved the tracking ref. *)
C22_NoResubmission ==
    \A i \in Normal :
        (~allHistoryCfg /\ cycle >= 2) =>
            \A k \in EmittedInCycle(branchSpecs[i].branch) :
                \A j \in EmittedBefore(branchSpecs[i].branch, cycle) :
                    emitted[k].revision # emitted[j].revision

(* C23: a failed external call of a poll cycle is logged and swallowed.  The
   cycle goes straight to its catch-up, holding the lock; the catch-up acts
   when changes were submitted before the failure; when the cycle is over no
   call is left in it and the lock is free or with the next caller; no step
   of a poll cycle stops the service; and a later cycle without a failed call
   submits what its log query lists. *)
C23_FailureIsSwallowed ==
    /\ [][(ppc # "idle" \/ ppc' # "idle") => running' = running]_vars
    /\ []((faulty /\ ppc # "idle") =>
               /\ ppc = "catch_up"
               /\ \E p \in Callers : Critical = {p}
               /\ (EmittedThisCycle # {} => changeCount # 0))
    /\ [](locked <=> (Critical # {}))
    /\ []((ppc = "idle" /\ Critical = {}) => (~locked /\ waiting = <<>>))
    /\ []((ppc = "catch_up" /\ ~faulty /\ ~allHistoryCfg) =>
               \A i \in Normal :
                   {emitted[k].revision : k \in EmittedInCycle(branchSpecs[i].branch)}
                      = Range(git_log(localRef[branchSpecs[i].localBranch],
                                      origin[branchSpecs[i].branch])))

(* After a cycle in which a submission failed (the catch-up has taken the
   tracking ref past a commit that is not in the store), the next cycle has
   run without a failure, has submitted changes and comes to its catch-up. *)
C23_Witness ==
    /\ cycle = 2
    /\ ppc = "catch_up"
    /\ ~faulty
    /\ running
    /\ EmittedThisCycle # {}
    /\ \E i \in Normal :
           \E c \in Anc(localRef[branchSpecs[i].localBranch])
                       \ Anc(local0[branchSpecs[i].localBranch]) :
               TimesEmitted(c, branchSpecs[i].branch) = 0

(* C24: the catch-up moves the tracking ref of a normal branch only past
   commits that were submitted: every commit the tracking ref has gone past
   since initialization is in the store, also after a cycle in which the log
   query or a submission of some branch failed or a branch was not reached. *)
C24_RefOnlyPastSubmitted ==
    \A i \in Normal :
        (~allHistoryCfg /\ local0[branchSpecs[i].localBranch] # 0) =>
            \A c \in Anc(localRef[branchSpecs[i].localBranch])
                        \ Anc(local0[branchSpecs[i].localBranch]) :
                TimesEmitted(c, branchSpecs[i].branch) >= 1

(* The normal branch specs for which the current cycle has not submitted what
   the log query of the branch lists. *)
SkippedInCycle ==
    {i \in Normal :
        {emitted[k].revision : k \in EmittedInCycle(branchSpecs[i].branch)}
           # Range(git_log(localRef[branchSpecs[i].localBranch],
                           origin[branchSpecs[i].branch]))}

(* C25: a failed call of a poll cycle costs the contribution of one branch
   only: when the cycle comes to its catch-up, at most one normal branch is
   without the changes its log query lists. *)
C25_OnlyFailedBranchSkipped ==
    (/\ ppc = "catch_up"
     /\ ~allHistoryCfg
     /\ \A i \in Normal : local0[branchSpecs[i].localBranch] # 0)
        => Cardinality(SkippedInCycle) <= 1

(* C26: a failed external call of the initialization stops the service, and
   once the service is stopped no poll cycle submits a change. *)
C26_InitFailureIsFatal ==
    /\ []((proc[<<"initRepository", 0>>] = "failed"
              \/ proc[<<"setupRepository", 0>>] \in {"failed", "init_master_failed"})
             => ~running)
    /\ [][~running => emitted' = emitted]_vars

(* C27: with a local-only branch spec that has neither a local branch nor
   last_head, the initialization does not succeed and no poll cycle runs:
   setupRepository never ends well leaving the branch of a local-only spec
   without a starting point, and no cycle has run for such a poller. *)
C27_NoLastHeadPreventsStart ==
    \A i \in LocalOnly :
        (/\ proc[<<"setupRepository", 0>>] \in {"done", "failed", "init_master_failed"}
         /\ local0[branchSpecs[i].localBranch] = 0
         /\ last_head[i] = 0
         /\ emitted = <<>>)
            => (proc[<<"setupRepository", 0>>] # "done" /\ cycle = 0)

(* C28: a change is submitted with skip_build exactly when its branch is
   being backfilled in that cycle (historic_mode).  So a poller without
   allHistory submits none with skip_build; the changes of one branch in one
   cycle agree on it; and, a branch being backfilled once, no change with
   skip_build comes after a cycle that submitted the branch's changes without
   it. *)
C28_SkipBuildIffBackfill ==
    /\ [][emitted' # emitted =>
              /\ Len(emitted') = Len(emitted) + 1
              /\ emitted'[Len(emitted')].skip_build = historic_mode]_vars
    /\ [](~allHistoryCfg => \A k \in DOMAIN emitted : ~emitted[k].skip_build)
    /\ [](\A j, k \in DOMAIN emitted :
             (j < k /\ emitted[j].branch = emitted[k].branch) =>
                 /\ emitted[j].cycle = emitted[k].cycle
                        => emitted[j].skip_build = emitted[k].skip_build
                 /\ emitted[k].skip_build => emitted[j].cycle = emitted[k].cycle)

(* A backfill cycle has submitted a change with skip_build and a later,
   incremental cycle one without. *)
C28_Witness ==
    \E j, k \in DOMAIN emitted :
        /\ emitted[j].skip_build
        /\ ~emitted[k].skip_build
        /\ emitted[j].cycle < emitted[k].cycle
        /\ emitted[j].branch = emitted[k].branch

(* C29: a failed git command of the catch-up is only logged.  Whatever the
   branches whose command fails, the tracking ref of every other normal branch
   is moved to its remote tip; the catch-up step leaves the service running as
   it was, ends the cycle and takes its call out of the critical section, the
   lock going to the next caller or being free, so that the next poll can
   run. *)
C29_CatchUpErrorsLoggedOnly ==
    /\ []((ppc = "catch_up" /\ changeCount # 0) =>
              \A failing \in SUBSET Normal :
                  \A i \in Normal \ failing :
                      catch_up_refs(changeCount, failing)[branchSpecs[i].localBranch]
                         = origin[branchSpecs[i].branch])
    /\ [][(ppc = "catch_up" /\ ppc' = "idle") =>
              /\ running' = running
              /\ started' = started
              /\ \A p \in Callers : proc[p] = "critical" => proc'[p] = "idle"
              /\ locked' <=> (Critical' # {})
              /\ \A i \in Normal :
                    localRef'[branchSpecs[i].localBranch]
                       \in {localRef[branchSpecs[i].localBranch],
                            origin[branchSpecs[i].branch]}]_vars

(* A cycle is over whose catch-up failed for one branch and moved the tracking
   ref of another, with the service running. *)
C29_Witness ==
    /\ ppc = "idle"
    /\ cycle >= 1
    /\ changeCount # 0
    /\ running
    /\ \A p \in Callers : proc[p] = "idle"
    /\ \E i, j \in Normal :
          /\ localRef[branchSpecs[i].localBranch] # origin[branchSpecs[i].branch]
          /\ localRef[branchSpecs[j].localBranch] = origin[branchSpecs[j].branch]
          /\ localRef[branchSpecs[j].localBranch] # local0[branchSpecs[j].localBranch]
          /\ local0[branchSpecs[j].localBranch] # 0

(* C30: an evaluation of an Armed scheduler with a debounce window, S being
   the stableAt it computes (latest pending change plus the window): when the
   time it read is S or later, it has created the buildset, retired the
   pending changes in its transaction and returns no wake-up time; when the
   time is before S, it has created no buildset, retired nothing, keeps S in
   stableAt and returns S + 1. *)
C30_EvaluationOfArmed ==
    (treeStableTimer # None /\ pc = "commit" /\ important # {}) =>
        LET S == Latest(important \cup unimportant) + treeStableTimer IN
        IF evalNow >= S
        THEN /\ Len(NewBuildsets) = 1
             /\ t.scheduler_changes \cap (important \cup unimportant) = {}
             /\ wakeup = None
             /\ stableAt = None
        ELSE /\ NewBuildsets = <<>>
             /\ t.scheduler_changes = scheduler_changes
             /\ wakeup = S + 1
             /\ stableAt = S

(* An earlier evaluation left the scheduler Armed with a stableAt; this one
   comes when the window has closed and builds. *)
C30_Witness ==
    /\ treeStableTimer # None
    /\ pc = "commit"
    /\ important # {}
    /\ before.stableAt # None
    /\ evalNow >= before.stableAt
    /\ Len(NewBuildsets) = 1
    /\ wakeup = None

(***************************************************************************)
(* Further properties, C31 to C40.                                         *)
(***************************************************************************)

(* C31: with a debounce window, a trigger has created exactly one buildset;
   its SourceStamp lists all the pending changes, important or not, in
   ascending order of change number; and exactly those changes are retired,
   as one retirement, in the same transaction. *)
C31_OneBuildsetInNumberOrder ==
    (treeStableTimer # None /\ pc = "commit" /\ NewBuildsets # <<>>) =>
        LET ss == NewBuildsets[1].changes IN
        /\ Len(NewBuildsets) = 1
        /\ Range(ss) = important \cup unimportant
        /\ Range(ss) = before.scheduler_changes
        /\ \A i, j \in DOMAIN ss : i < j => ss[i] < ss[j]
        /\ Len(t.retired) = Len(retired) + 1
        /\ t.retired[Len(t.retired)] = Range(ss)
        /\ t.scheduler_changes = before.scheduler_changes \ Range(ss)

(* One buildset has been created from pending changes among which an
   unimportant one has a smaller number than an important one. *)
C31_Witness ==
    /\ treeStableTimer # None
    /\ pc = "commit"
    /\ Len(NewBuildsets) = 1
    /\ \E u \in unimportant, i \in important : u < i

(* C32: the step that takes a branch off the pending-backfill set is the one
   that computes its range: it takes off that branch only, submits nothing,
   and adds the tip of the branch to the known tips, whether the log that
   follows fails, lists nothing or lists commits.  The known tips are kept to
   the end of the cycle, so when a later branch of the cycle is backfilled the
   tips of all the branches before it are among the tips its merge base was
   taken of. *)
C32_RemovedWhenRangeComputed ==
    /\ [][(ppc = "log" /\ allHistory' # allHistory) =>
              /\ branchSpecs[bi].localBranch \in allHistory
              /\ allHistory' = allHistory \ {branchSpecs[bi].localBranch}
              /\ emitted' = emitted
              /\ currentBranches' = currentBranches \cup
                    {IF bi \in Normal THEN origin[branchSpecs[bi].branch]
                     ELSE localRef[branchSpecs[bi].localBranch]}]_vars
    /\ [][(ppc \in {"log", "add"} /\ ppc' \in {"log", "add"}) =>
              currentBranches \subseteq currentBranches']_vars
    /\ []((ppc = "add" /\ historic_mode) =>
              /\ branchSpecs[bi].localBranch \notin allHistory
              /\ \A j \in Normal : j < bi => origin[branchSpecs[j].branch] \in knownTips
              /\ knownTips # {} => range.start \in merge_base_octopus(knownTips))

(* In a new repository (every branch pending backfill), the third branch is
   being backfilled after an earlier branch of the same cycle yielded no
   commit. *)
C32_Witness ==
    /\ ~repoExists
    /\ cycle = 1
    /\ ppc = "add"
    /\ historic_mode
    /\ bi = 3
    /\ \E j \in Normal :
          /\ j < bi
          /\ EmittedInCycle(branchSpecs[j].branch) = {}
          /\ origin[branchSpecs[j].branch] \in knownTips

(* C33: once _init_master has set it, the pending-backfill set only shrinks:
   no step other than the initialization adds a branch to it (so a branch
   that was taken off is never taken off again), and when a poll cycle has
   gone through all branch specs without a failure the set is empty, as it is
   in all later cycles. *)
C33_AllHistoryShrinks ==
    /\ [][proc[<<"setupRepository", 0>>] # "critical" =>
              allHistory' \subseteq allHistory]_vars
    /\ []((ppc = "catch_up" /\ ~faulty) => allHistory = {})

(* The second cycle of a poller with allHistory runs with an empty set after
   the first has backfilled its branch. *)
C33_Witness ==
    /\ allHistoryCfg
    /\ cycle = 2
    /\ ppc = "add"
    /\ ~historic_mode
    /\ allHistory = {}
    /\ \E k \in DOMAIN emitted : emitted[k].skip_build /\ emitted[k].cycle = 1

(* C34: with a working copy and several normal branches, every reset of
   _catch_up is applied while its own branch is checked out, and when all the
   chains of a catch-up have succeeded each local tracking branch is at the tip
   of its own remote branch. *)
C34_CatchUpSerialized ==
    /\ [][\A i \in DOMAIN chain :
            (ppc = "catching_up" /\ ppc' = "catching_up" /\ chain[i] = "reset" /\ chain'[i] = "done")
                => HEAD = branchSpecs[i].localBranch]_vars
    /\ []((ppc = "catching_up" /\ \A i \in DOMAIN chain : chain[i] = "done")
            => \A i \in Normal : localRef[branchSpecs[i].localBranch] = origin[branchSpecs[i].branch])


(* The foreign line is ahead of the first commit separator. *)
BeforeFirstCommit == foreign # NoForeign /\ foreign.at = 0

(* The foreign line stands where a simple field does (after the commit
   separator, a simple field or the end of a field of several lines) and is
   "name: text" with a name that log_fields does not have. *)
UnknownSimpleField ==
    /\ foreign # NoForeign /\ foreign.at >= 1
    /\ git_log_tagged(logged)[foreign.at].tag \in {"start", "simple", "close"}
    /\ Len(foreign.line) >= 2 /\ foreign.line[2] = ":"
    /\ foreign.line[1] \notin DOMAIN log_fields

(* C35: once _parse_log_results has run on an output with a line ahead of the
   first commit separator, or with a simple-field line of unknown name, it has
   raised, none of the output's commits is submitted and changeCount is as it
   was. *)
C35_ParserRejects ==
    (parsed.state \in {"ok", "raised"} /\ (BeforeFirstCommit \/ UnknownSimpleField))
        => (parsed.state = "raised" /\ parsed.submitted = <<>> /\ changeCount = 0)

(* An output of a commit with an unknown field among its simple fields has been
   refused. *)
C35_Witness ==
    /\ UnknownSimpleField /\ Len(logged) >= 1 /\ git_log_tagged(logged)[foreign.at].tag = "simple"
    /\ parsed.state = "raised"


(* The lines of commit i in the output that are tg lines of field key. *)
LinesOf(i, tg, key) ==
    LET sel == SelectSeq(git_log_tagged(logged), LAMBDA e : e.of = i /\ e.tag = tg /\ e.key = key)
    IN  [j \in DOMAIN sel |-> sel[j].line]

(* Lines as one text, each ended by a newline. *)
RECURSIVE JoinLines(_)
JoinLines(ls) == IF ls = <<>> THEN <<>> ELSE Head(ls) \o <<"\n">> \o JoinLines(Tail(ls))

SimpleKeys == {k \in DOMAIN log_fields : log_fields[k][1] # "+"}

(* Record d holds the fields of commit i as the output has them: a simple
   field the text after "name: ", a field of several lines the lines between its
   header and the field separator. *)
FieldsAsPrinted(d, i) ==
    /\ DOMAIN d = DOMAIN log_fields \cup {"files"}
    /\ \A k \in SimpleKeys :
          LET l == LinesOf(i, "simple", k)[1] IN d[k] = SubSeq(l, 4, Len(l))
    /\ \A k \in DOMAIN log_fields \ SimpleKeys : d[k] = JoinLines(LinesOf(i, "multi", k))

(* C36: for the output git log prints for N commits, the parser yields N
   records in the order of the output, each with its fields as printed and with
   exactly the non-empty lines after the files separator as its file list. *)
C36_ParsesWellFormed ==
    (parsed.state \in {"ok", "raised"} /\ foreign = NoForeign)
        => /\ parsed.state = "ok"
           /\ Len(parsed.revList) = Len(logged)
           /\ \A i \in DOMAIN logged :
                 /\ FieldsAsPrinted(parsed.revList[i], i)
                 /\ parsed.revList[i]["files"] = SelectSeq(LinesOf(i, "files", ""), LAMBDA l : l # <<>>)

(* The same with each line of the file list stripped of the blanks at its
   ends, as line 332 does. *)
ParsesWellFormedStripped ==
    (parsed.state \in {"ok", "raised"} /\ foreign = NoForeign)
        => /\ parsed.state = "ok"
           /\ Len(parsed.revList) = Len(logged)
           /\ \A i \in DOMAIN logged :
                 /\ FieldsAsPrinted(parsed.revList[i], i)
                 /\ LET fl == SelectSeq(LinesOf(i, "files", ""), LAMBDA l : l # <<>>)
                    IN  parsed.revList[i]["files"] = [j \in DOMAIN fl |-> strip(fl[j])]


(* C37: when the working repository did not exist at start-up, a poll holds
   initLock only after initRepository and setupRepository have both ended; in
   particular not between the release by initRepository and the acquisition by
   setupRepository. *)
C37_NoPollBeforeSetup ==
    (~repoExists /\ \E p \in Callers : proc[p] = "critical")
        => /\ proc[<<"initRepository", 0>>] \in {"done", "failed"}
           /\ proc[<<"initRepository", 0>>] = "done"
                 => proc[<<"setupRepository", 0>>] \in {"done", "failed", "init_master_failed"}


(* C38: in the single-branch GitPoller the local tracking branch is never
   moved past a revision that was not submitted: every commit it has gone past
   since the initialization is in the store, also after a cycle in which the
   commit data or addChange failed. *)
C38_RefNotPastUnsubmitted ==
    \A lb \in LocalNames :
        local0[lb] # 0 =>
            \A c \in Anc(localRef[lb]) \ Anc(local0[lb]) :
                TimesEmitted(c, branchSpecs[SpecOf(lb)].branch) >= 1


(* C39: the backfill of a branch is not abandoned.  After the cycle that took
   a branch off allHistory, a commit of the branch's history that is behind the
   local tracking branch is in the store: no later cycle would list it, since
   the branch is logged from its tracking branch from then on. *)
C39_BackfillNotAbandoned ==
    (allHistoryCfg /\ ~repoExists /\ proc[<<"setupRepository", 0>>] = "done"
       /\ ppc = "idle" /\ cycle = 1)
        => \A i \in Normal :
              branchSpecs[i].localBranch \notin allHistory
                 => \A c \in Range(git_log(0, origin[branchSpecs[i].branch]))
                                \cap Anc(localRef[branchSpecs[i].localBranch]) :
                       TimesEmitted(c, branchSpecs[i].branch) >= 1


(* The scheduler is idle: no run under way, nothing pending, stableAt None and
   no wake-up time. *)
Idle == pc = "idle" /\ scheduler_changes = {} /\ stableAt = None /\ wakeup = None

(* One buildset has all the changes of the store. *)
AllInOneBuildset ==
    \E k \in DOMAIN buildsets : Range(buildsets[k].changes) = DOMAIN changes

(* C40: with a treeStableTimer, when important changes are pending, no further
   change arrives, time advances and the scheduler keeps being run, a buildset
   with those changes is eventually created and the scheduler is idle again;
   and a wake-up time it returns is always later than the time of the
   evaluation. *)
C40_DebounceTerminates ==
    /\ [](wakeup # None => wakeup > evalNow)
    /\ (\E c \in DOMAIN changes : changes[c].important) ~> (Idle /\ AllInOneBuildset)

(* The scheduler is idle after a run that found stableAt set by an earlier one
   and created the buildset. *)
C40_Witness ==
    /\ treeStableTimer # None /\ before.stableAt # None
    /\ Idle /\ AllInOneBuildset
    /\ \E c \in DOMAIN changes : changes[c].important

=============================================================================
